---- MODULE Spec2Model ----
(***************************************************************************)
(* Model of slurm-healthcheck.py: the result accumulator                   *)
(* (TestResult / HealthcheckResults / SlurmHealthcheck.add_result /        *)
(* get_results), the standard checks, the capture of a baseline and its    *)
(* JSON file (capture_baseline, json.dump / json.load), the baseline       *)
(* comparison (compare_baseline) and main(), which validates the           *)
(* arguments, captures or loads a baseline, runs the comparison and the    *)
(* checks, builds the report and chooses the process exit code.            *)
(*                                                                         *)
(* External commands (sinfo, sacct, sacctmgr, systemctl, ...) are the      *)
(* environment: every call of run_command returns either ret = 0 with some *)
(* output or ret # 0.                                                      *)
(***************************************************************************)
EXTENDS Integers, Sequences, FiniteSets, TLC

VARIABLES
    pc,         \* position of the program
    args,       \* parsed command line (argparse namespace)
    baseline,   \* main's local `baseline`: the document being captured (--pre-upgrade) or the loaded one
    results,    \* SlurmHealthcheck.results: list of TestResult
    data_type,  \* index of the loop over the accounting types (compare_baseline, capture_baseline)
    cmd,        \* the locals ret, out, err: the result of the latest run_command
    controller_nodes,  \* SlurmHealthcheck.controller_nodes
    accounting_nodes,  \* SlurmHealthcheck.accounting_nodes
    budget,     \* number of inputs of this run that may depart from the nominal ones
    departures, \* number of inputs so far (switches, command results, baseline fields) that are not the nominal ones
    reported,   \* overall_status written in the report ("none": nothing written)
    exitCode,   \* process exit code (-1 while running)
    report,     \* the HealthcheckResults object that get_results returned
    file,       \* the content of the baseline file, as JSON tokens (none: empty)
    console,    \* the lines that _print_result wrote to stdout, in order
    twin,       \* self.results of the run on the same command results with the other --verbose
    transfer,   \* migrate-slurmdb-to-headnode: the locals of dump_remote_slurm_db / import_db_to_local and its progress thread
    backup      \* backup-slurm-db: the SlurmDatabaseBackup run and the files it sees

\* the state of slurm-healthcheck
healthcheck_vars == <<pc, args, baseline, results, data_type, cmd, controller_nodes, accounting_nodes,
                     budget, departures, reported, exitCode, report, file, console, twin>>

vars == <<healthcheck_vars, transfer, backup>>

\* the other two tools are not running
NoTransfer == [func |-> "none"]
NoBackupRun == [pc |-> "none"]

----------------------------------------------------------------------------
(* Bounds of the model *)

\* longest outcome sequence built through add_result alone (SpecReport)
MaxTests == 4
\* accounting lists and node lists have 0..MaxCount lines
MaxCount == 2
\* 30-day job counts lie around the multiples of ten up to 10 * MaxJobTens
MaxJobTens == 1
\* inputs of one run (switches, command results, baseline fields) that may
\* depart from the nominal ones: in the runs of SpecCompare, which only
\* compare, and in the runs of Spec, which also make the standard checks
MaxDepartures == 2
MaxRunDepartures == 1
\* the age in days of the oldest file of the backup directory; the run of
\* backup-slurm-db is on the day MaxAge
MaxAge == 3
\* the values of --retention: the integers from -MaxRetention to MaxRetention
MaxRetention == 2

----------------------------------------------------------------------------
(* TestStatus, TestResult *)

PASS == "PASS"
FAIL == "FAIL"
WARN == "WARN"
SKIP == "SKIP"
TestStatus == {PASS, FAIL, WARN, SKIP}

\* a message: the literal text of the f-string and the values formatted into it
Msg(text, fmt) == [text |-> text, fmt |-> fmt]
NoMessage == Msg("", <<>>)
\* details or {}
NoDetails == <<>>

TestResult(category, name, status, message, details) ==
    [category |-> category, name |-> name, status |-> status,
     message |-> message, details |-> details]

----------------------------------------------------------------------------
(* HealthcheckResults.summary / overall_status *)

\* sum(1 for t in tests if t.status == s)
CountStatus(tests, s) == Cardinality({i \in DOMAIN tests : tests[i].status = s})

summary_without_skipped(tests) ==
    [total    |-> CountStatus(tests, PASS) + CountStatus(tests, FAIL) + CountStatus(tests, WARN),
     passed   |-> CountStatus(tests, PASS),
     failed   |-> CountStatus(tests, FAIL),
     warnings |-> CountStatus(tests, WARN),
     skipped  |-> CountStatus(tests, SKIP)]

summary_leading_failure_only(tests) ==
    [total    |-> Len(tests),
     passed   |-> CountStatus(tests, PASS),
     failed   |-> IF tests # <<>> /\ tests[1].status = FAIL THEN CountStatus(tests, FAIL) ELSE 0,
     warnings |-> CountStatus(tests, WARN),
     skipped  |-> CountStatus(tests, SKIP)]

summary(tests) ==
    [total    |-> Len(tests),
     passed   |-> CountStatus(tests, PASS),
     failed   |-> CountStatus(tests, FAIL),
     warnings |-> CountStatus(tests, WARN),
     skipped  |-> CountStatus(tests, SKIP)]

overall_status_warnings_first(tests) ==
    LET s == summary(tests) IN
    IF s.warnings > 0 THEN "DEGRADED"
    ELSE IF s.failed > 0 THEN "CRITICAL"
    ELSE "HEALTHY"

overall_status_warnings_ignored(tests) ==
    LET s == summary(tests) IN
    IF s.failed > 0 THEN "CRITICAL" ELSE "HEALTHY"

overall_status_skip_degrades(tests) ==
    LET s == summary(tests) IN
    IF s.failed > 0 THEN "CRITICAL"
    ELSE IF s.warnings + s.skipped > 0 THEN "DEGRADED"
    ELSE "HEALTHY"

overall_status_pass_required(tests) ==
    LET s == summary(tests) IN
    IF s.failed > 0 THEN "CRITICAL"
    ELSE IF s.warnings > 0 \/ (s.total > 0 /\ s.passed = 0) THEN "DEGRADED"
    ELSE "HEALTHY"

overall_status(tests) ==
    LET s == summary(tests) IN
    IF s.failed > 0 THEN "CRITICAL"
    ELSE IF s.warnings > 0 THEN "DEGRADED"
    ELSE "HEALTHY"

----------------------------------------------------------------------------
(* SlurmHealthcheck.add_result *)

add_result_replacing_last(rs, category, name, status, message, details) ==
    IF rs = <<>> THEN <<TestResult(category, name, status, message, details)>>
    ELSE [rs EXCEPT ![Len(rs)] = TestResult(category, name, status, message, details)]

add_result_prepending(rs, category, name, status, message, details) ==
    <<TestResult(category, name, status, message, details)>> \o rs

\* results.append(TestResult(category, name, status, message, details or {}))
add_result(rs, category, name, status, message, details) ==
    Append(rs, TestResult(category, name, status, message, details))

\* the lines of one outcome on the console: the status line, the message
\* line, the lines of the details (one per key, here as one group)
StatusLine(result)  == [line |-> "status", result |-> result]
MessageLine(result) == [line |-> "message", result |-> result]
DetailLines(result) == [line |-> "details", result |-> result]

print_result_message_always(result, verbose) ==
    <<StatusLine(result), MessageLine(result)>>
        \o (IF verbose /\ DOMAIN result.details # {} THEN <<DetailLines(result)>> ELSE <<>>)

\* _print_result(result)
print_result(result, verbose) ==
    <<StatusLine(result)>>
        \o (IF result.message.text # "" /\ (verbose \/ result.status \in {FAIL, WARN})
            THEN <<MessageLine(result)>> ELSE <<>>)
        \o (IF verbose /\ DOMAIN result.details # {} THEN <<DetailLines(result)>> ELSE <<>>)

\* the console after the add_result calls that took the results from
\* `before` to `after`: each call prints its outcome unless self.quiet
RECURSIVE printed(_, _, _, _, _)
printed(out, before, after, quiet, verbose) ==
    IF quiet \/ Len(after) <= Len(before) THEN out
    ELSE printed(out \o print_result(after[Len(before) + 1], verbose),
                 SubSeq(after, 1, Len(before) + 1), after, quiet, verbose)

----------------------------------------------------------------------------
(* SlurmHealthcheck.get_results *)

\* no HealthcheckResults object yet
NoReport == [made |-> FALSE, timestamp |-> 0, shared |-> TRUE, own |-> <<>>]

get_results_copying(rs) ==
    [made |-> TRUE, timestamp |-> Len(rs), shared |-> FALSE, own |-> rs]

\* HealthcheckResults(..., tests=self.results): the object holds the list
\* self.results itself (shared), not a list of its own; timestamp is the time
\* of the call, counted in outcomes recorded so far
get_results(rs) ==
    [made |-> TRUE, timestamp |-> Len(rs), shared |-> TRUE, own |-> <<>>]

----------------------------------------------------------------------------
(* The environment: results of run_command and the baseline file *)

\* (returncode, stdout, stderr) as run_command returns them
Ok(out) == [ret |-> 0, out |-> out, err |-> ""]
\* a failed command; out is the empty output of the command's kind
Failed(out) == [ret |-> 1, out |-> out, err |-> "stderr text"]
NoCmd   == [ret |-> 0, out |-> "", err |-> ""]

\* a command output of n non-blank lines
Lines(n) == [i \in 1..n |-> "rec"]

\* len([line for line in out.strip().split('\n') if line.strip()])
CountLines(out) == Cardinality({i \in DOMAIN out : out[i] # ""})

Versions == {"v1", "v2"}
\* Python's None (json null)
None == "None"
Counts == 0..MaxCount
JobCounts == {n \in {10 * t + d : t \in 0..MaxJobTens, d \in {-2, -1, 0}} : n >= 0}
                 \cup {89, 90, 91, 100}
PartitionNames == {"a", "b", "c"}

\* the cluster of a nominal run: upgraded, nothing lost
NominalVersion == "v2"
NominalCount == MaxCount - 1
NominalJobCount == 10 * MaxJobTens
NominalPartitions == {"a", "b"}

\* 0 for the nominal input, 1 for any other
Dep(x, nominal) == IF x = nominal THEN 0 ELSE 1

\* the same for the result of a command: nominal when it succeeded with the
\* nominal output
DepCmd(r, nominal) == IF r.ret = 0 /\ r.out = nominal.out THEN 0 ELSE 1

\* dict.get(key, default)
Get(d, key, default) == IF key \in DOMAIN d THEN d[key] ELSE default

EmptyDict == [k \in {} |-> 0]

\* a key that a dict may lack: opt is {} (no key) or {value}
Optional(S) == {{}} \cup {{x} : x \in S}
Field(key, opt) == [k \in {key : x \in opt} |-> CHOOSE x \in opt : TRUE]

----------------------------------------------------------------------------
(* The baseline document, as capture_baseline builds it *)

AccountingTypes == <<"users", "accounts", "qos", "tres", "clusters">>
AccountingTypeSet == {AccountingTypes[i] : i \in DOMAIN AccountingTypes}

\* data_type.title()
Title(t) ==
    CASE t = "users"    -> "Users"
      [] t = "accounts" -> "Accounts"
      [] t = "qos"      -> "Qos"
      [] t = "tres"     -> "Tres"
      [] t = "clusters" -> "Clusters"

\* f"Accounting: {data_type.title()}"; a name is the tuple of the pieces of its f-string
AccountingName(t) == <<"Accounting: ", Title(t)>>

PartitionInfo == [available |-> "up", timelimit |-> "infinite", nodes |-> "1"]

\* ver: the version or None; acct: lines captured per accounting type ([] when
\* the capture command failed); job, parts, nodes: {} when the capture command
\* failed and the key was never set
BaselineDoc(ver, acct, job, parts, nodes) ==
    [slurm_version |-> ver,
     accounting    |-> [t \in AccountingTypeSet |-> Lines(acct[t])]
                           @@ Field("job_count_30days", job),
     configuration |-> Field("partitions", {[p \in ps |-> PartitionInfo] : ps \in parts}),
     system_state  |-> Field("total_nodes", nodes)]

NoBaseline == EmptyDict

\* the accounting counts with at most k types away from the nominal count
AccountingCounts(k) ==
    {f \in [AccountingTypeSet -> Counts] :
        Cardinality({t \in AccountingTypeSet : f[t] # NominalCount}) <= k}

----------------------------------------------------------------------------
(* Python values as json.dump sees them, and the JSON text of a value *)

\* a value with its Python type; a dict is the sequence of its items in
\* insertion order, its keys are str (capture_baseline builds no other key)
PyNone     == [kind |-> "NoneType", val |-> 0]
PyStr(s)   == [kind |-> "str", val |-> s]
PyInt(n)   == [kind |-> "int", val |-> n]
PyList(xs) == [kind |-> "list", val |-> xs]
PyDict(xs) == [kind |-> "dict", val |-> xs]
Item(k, v) == [key |-> k, value |-> v]

\* key in d
PyHas(d, k) == \E i \in DOMAIN d.val : d.val[i].key = k

\* d[k]
PyGetItem(d, k) == d.val[CHOOSE i \in DOMAIN d.val : d.val[i].key = k].value

\* d[k] = v
PySetItem(d, k, v) ==
    IF PyHas(d, k)
    THEN PyDict([i \in DOMAIN d.val |-> IF d.val[i].key = k THEN Item(k, v) ELSE d.val[i]])
    ELSE PyDict(Append(d.val, Item(k, v)))

\* d[k1][k2] = v
PySetItem2(d, k1, k2, v) == PySetItem(d, k1, PySetItem(PyGetItem(d, k1), k2, v))

\* the text as its tokens; the white space of indent=2 separates tokens and is
\* left out; a number token stands for the decimal digits of its value
Tok(t)        == [tok |-> t, str |-> "", num |-> 0]
JsonNull      == Tok("null")
JsonString(s) == [tok |-> "string", str |-> s, num |-> 0]
JsonNumber(n) == [tok |-> "number", str |-> "", num |-> n]

dump_scalar_none_as_text(v) ==
    CASE v.kind = "NoneType" -> JsonString("None")
      [] v.kind = "str"      -> JsonString(v.val)
      [] v.kind = "int"      -> JsonNumber(v.val)

\* None -> null, str -> "...", int -> digits
dump_scalar(v) ==
    CASE v.kind = "NoneType" -> JsonNull
      [] v.kind = "str"      -> JsonString(v.val)
      [] v.kind = "int"      -> JsonNumber(v.val)

RECURSIVE json_dump(_), dump_list(_, _), dump_dict(_, _)

\* json.dump(v, f, indent=2)
json_dump(v) ==
    CASE v.kind = "list" -> <<Tok("[")>> \o dump_list(v.val, 1) \o <<Tok("]")>>
      [] v.kind = "dict" -> <<Tok("{")>> \o dump_dict(v.val, 1) \o <<Tok("}")>>
      [] OTHER           -> <<dump_scalar(v)>>

dump_list(xs, i) ==
    IF i > Len(xs) THEN <<>>
    ELSE (IF i > 1 THEN <<Tok(",")>> ELSE <<>>) \o json_dump(xs[i]) \o dump_list(xs, i + 1)

dump_dict(xs, i) ==
    IF i > Len(xs) THEN <<>>
    ELSE (IF i > 1 THEN <<Tok(",")>> ELSE <<>>)
             \o <<JsonString(xs[i].key), Tok(":")>> \o json_dump(xs[i].value)
             \o dump_dict(xs, i + 1)

RECURSIVE parse_value(_, _), parse_array(_, _, _), parse_object(_, _, _)

\* the value that starts at token i, and the position after it
parse_value(toks, i) ==
    LET t == toks[i] IN
    CASE t.tok = "null"   -> [value |-> PyNone, next |-> i + 1]
      [] t.tok = "string" -> [value |-> PyStr(t.str), next |-> i + 1]
      [] t.tok = "number" -> [value |-> PyInt(t.num), next |-> i + 1]
      [] t.tok = "["      -> IF toks[i + 1].tok = "]"
                             THEN [value |-> PyList(<<>>), next |-> i + 2]
                             ELSE parse_array(toks, i + 1, PyList(<<>>))
      [] t.tok = "{"      -> IF toks[i + 1].tok = "}"
                             THEN [value |-> PyDict(<<>>), next |-> i + 2]
                             ELSE parse_object(toks, i + 1, PyDict(<<>>))

\* the elements from token i on, up to the closing bracket
parse_array(toks, i, acc) ==
    LET e == parse_value(toks, i)
        list == PyList(Append(acc.val, e.value))
    IN  IF toks[e.next].tok = ","
        THEN parse_array(toks, e.next + 1, list)
        ELSE [value |-> list, next |-> e.next + 1]

\* the members from token i on, up to the closing brace; a repeated key
\* overwrites, as assignment into a dict
parse_object(toks, i, acc) ==
    LET e == parse_value(toks, i + 2)
        dict == PySetItem(acc, toks[i].str, e.value)
    IN  IF toks[e.next].tok = ","
        THEN parse_object(toks, e.next + 1, dict)
        ELSE [value |-> dict, next |-> e.next + 1]

\* json.load(f)
json_load(toks) == parse_value(toks, 1).value

----------------------------------------------------------------------------
(* SlurmHealthcheck.capture_baseline: what each command adds to the document *)

\* the dict literal capture_baseline starts from
InitialBaseline ==
    PyDict(<<Item("timestamp", PyStr("timestamp")), Item("hostname", PyStr("hostname")),
             Item("user", PyStr("user")), Item("slurm_version", PyNone),
             Item("accounting", PyDict(<<>>)), Item("configuration", PyDict(<<>>)),
             Item("system_state", PyDict(<<>>))>>)

\* the keys of accounting_commands, in the order of the loop
AccountingCommands == <<"users", "accounts", "qos", "associations", "tres", "clusters">>

\* [line for line in out.strip().split('\n') if line.strip()]
PyLines(out) ==
    LET lines == SelectSeq(out, LAMBDA l : l # "")
    IN  PyList([i \in DOMAIN lines |-> PyStr(lines[i])])

capture_version(b, r) ==
    IF r.ret = 0 THEN PySetItem(b, "slurm_version", PyStr(r.out)) ELSE b

capture_accounting(b, key, r) ==
    IF r.ret = 0 THEN PySetItem2(b, "accounting", key, PyLines(r.out))
    ELSE PySetItem2(b, "accounting", key, PyList(<<>>))

\* user_counts / account_counts; the jobs of the model are those of one user
\* and one account
JobCountsBy(name, n) == IF n > 0 THEN PyDict(<<Item(name, PyInt(n))>>) ELSE PyDict(<<>>)

capture_jobs(b, r) ==
    IF r.ret = 0
    THEN LET n == CountLines(r.out)
             b1 == PySetItem2(b, "accounting", "job_count_30days", PyInt(n))
             b2 == PySetItem2(b1, "accounting", "user_job_counts", JobCountsBy("user1", n))
         IN  PySetItem2(b2, "accounting", "account_job_counts", JobCountsBy("account1", n))
    ELSE b

\* the order in which sinfo lists the partitions
PartitionOrder == <<"a", "b", "c">>

PyPartitionInfo ==
    PyDict(<<Item("available", PyStr("up")), Item("timelimit", PyStr("infinite")),
             Item("nodes", PyStr("1"))>>)

\* r.out: the partition names of the well-formed lines
capture_partitions(b, r) ==
    IF r.ret = 0
    THEN LET names == SelectSeq(PartitionOrder, LAMBDA p : p \in r.out)
         IN  PySetItem2(b, "configuration", "partitions",
                 PyDict([i \in DOMAIN names |-> Item(names[i], PyPartitionInfo)]))
    ELSE b

PyNodeInfo == PyDict(<<Item("state", PyStr("idle")), Item("gres", PyStr(""))>>)

\* r.out: the lines of `sinfo -N -h -o %N|%T|%G`, one per node
capture_nodes(b, r) ==
    IF r.ret = 0
    THEN LET n == CountLines(r.out)
             nodes == PyDict([i \in 1..n |-> Item("node" \o ToString(i), PyNodeInfo)])
         IN  PySetItem2(PySetItem2(b, "configuration", "nodes", nodes),
                        "system_state", "total_nodes", PyInt(n))
    ELSE b

\* r.out: the lines of `sinfo -h -o %T`, all of them "idle"
capture_states(b, r) ==
    IF r.ret = 0
    THEN PySetItem2(b, "system_state", "node_state_counts",
                    JobCountsBy("idle", CountLines(r.out)))
    ELSE b

----------------------------------------------------------------------------
(* SlurmHealthcheck.compare_baseline: the decision of each dimension *)

CMP == "Baseline Comparison"

version_unchanged_inverted(current_version, baseline_version) ==
    current_version # baseline_version

\* if current_version == baseline_version
version_unchanged(current_version, baseline_version) ==
    current_version = baseline_version

compare_version_null_baseline_warns(rs, b, r) ==
    IF r.ret = 0 THEN
        LET baseline_version == Get(b, "slurm_version", "unknown")
            details == [baseline |-> baseline_version, current |-> r.out]
        IN  IF r.out = baseline_version \/ baseline_version = None
            THEN add_result(rs, CMP, <<"Version Check">>, WARN,
                     Msg("Version unchanged: {} (expected upgrade)", <<r.out>>), details)
            ELSE add_result(rs, CMP, <<"Version Check">>, PASS,
                     Msg("Version upgraded: {} -> {}", <<baseline_version, r.out>>), details)
    ELSE rs

\* the outcome of the version dimension, r the result of `sinfo --version`
compare_version(rs, b, r) ==
    IF r.ret = 0 THEN
        LET current_version  == r.out
            baseline_version == Get(b, "slurm_version", "unknown")
            details == [baseline |-> baseline_version, current |-> current_version]
        IN  IF version_unchanged(current_version, baseline_version)
            THEN add_result(rs, CMP, <<"Version Check">>, WARN,
                     Msg("Version unchanged: {} (expected upgrade)", <<current_version>>),
                     details)
            ELSE add_result(rs, CMP, <<"Version Check">>, PASS,
                     Msg("Version upgraded: {} -> {}", <<baseline_version, current_version>>),
                     details)
    ELSE rs

count_lost_or_equal(current_count, baseline_count) == current_count <= baseline_count

\* if current_count < baseline_count
count_lost(current_count, baseline_count) == current_count < baseline_count

\* one turn of the loop over the accounting types, r the result of sacctmgr
compare_accounting(rs, b, t, r) ==
    LET accounting_baseline == Get(b, "accounting", EmptyDict)
        baseline_items == Get(accounting_baseline, t, <<>>)
        baseline_count == Len(baseline_items)
        name == AccountingName(t)
    IN  IF r.ret = 0 THEN
            LET current_count == CountLines(r.out)
                details == [baseline_count |-> baseline_count, current_count |-> current_count]
            IN  IF count_lost(current_count, baseline_count)
                THEN add_result(rs, CMP, name, FAIL,
                         Msg("DATA LOSS: {} -> {} ({} lost)",
                             <<baseline_count, current_count, baseline_count - current_count>>),
                         details)
                ELSE IF current_count = baseline_count
                THEN add_result(rs, CMP, name, PASS,
                         Msg("Count preserved: {} {}", <<current_count, t>>), details)
                ELSE add_result(rs, CMP, name, PASS,
                         Msg("Count increased: {} -> {}", <<baseline_count, current_count>>),
                         details)
        ELSE add_result(rs, CMP, name, FAIL,
                 Msg("Unable to query current {}: {}", <<t, r.err>>), NoDetails)

compare_jobs_after_fail_skipped(rs, b, r) ==
    IF \E i \in DOMAIN rs : rs[i].status = FAIL THEN rs
    ELSE add_result(rs, CMP, <<"Job History Integrity">>, PASS,
             Msg("Job history intact: {} jobs (baseline: {})", <<0, 0>>), NoDetails)

job_count_decreased_inclusive(current_job_count, baseline_job_count) ==
    current_job_count * 10 <= baseline_job_count * 9

\* if current_job_count < baseline_job_count * 0.9
\* The product is a double. 0.9 is the double 0.9 * (1 + e) with 0 < e < 2^-55,
\* so for every count below 2^50 the rounded product equals 9n/10 when that is
\* an integer and otherwise lies strictly between the same two integers as
\* 9n/10: the comparison with an integer decides as 10 * current < 9 * baseline.
job_count_decreased(current_job_count, baseline_job_count) ==
    current_job_count * 10 < baseline_job_count * 9

\* the outcome of the job-count dimension, r the result of sacct
compare_jobs(rs, b, r) ==
    LET accounting_baseline == Get(b, "accounting", EmptyDict)
        baseline_job_count == Get(accounting_baseline, "job_count_30days", 0)
    IN  IF r.ret = 0 THEN
            LET current_job_count == CountLines(r.out)
                details == [baseline |-> baseline_job_count, current |-> current_job_count]
            IN  IF job_count_decreased(current_job_count, baseline_job_count)
                THEN add_result(rs, CMP, <<"Job History Integrity">>, FAIL,
                         Msg("Significant job count decrease: {} -> {}",
                             <<baseline_job_count, current_job_count>>), details)
                ELSE add_result(rs, CMP, <<"Job History Integrity">>, PASS,
                         Msg("Job history intact: {} jobs (baseline: {})",
                             <<current_job_count, baseline_job_count>>), details)
        ELSE rs

missing_partitions_swapped(baseline_partition_names, current_partitions) ==
    current_partitions \ baseline_partition_names

\* missing = baseline_partition_names - current_partitions
missing_partitions(baseline_partition_names, current_partitions) ==
    baseline_partition_names \ current_partitions

\* the outcome of the partition dimension, r the result of `sinfo -h -o %R`
compare_partitions(rs, b, r) ==
    LET baseline_partitions == Get(Get(b, "configuration", EmptyDict), "partitions", EmptyDict)
    IN  IF r.ret = 0 THEN
            LET current_partitions == r.out
                baseline_partition_names == DOMAIN baseline_partitions
                missing == missing_partitions(baseline_partition_names, current_partitions)
                new == current_partitions \ baseline_partition_names
            IN  IF missing # {}
                THEN add_result(rs, CMP, <<"Partition Configuration">>, FAIL,
                         Msg("Missing partitions: {}", <<missing>>),
                         [missing |-> missing, new |-> new])
                ELSE IF new # {}
                THEN add_result(rs, CMP, <<"Partition Configuration">>, PASS,
                         Msg("All partitions preserved, {} new partition(s) added",
                             <<Cardinality(new)>>),
                         [new |-> new])
                ELSE add_result(rs, CMP, <<"Partition Configuration">>, PASS,
                         Msg("All {} partitions preserved", <<Cardinality(current_partitions)>>),
                         NoDetails)
        ELSE rs

node_count_decreased_inclusive(current_node_count, baseline_node_count) ==
    current_node_count <= baseline_node_count

\* if current_node_count < baseline_node_count
node_count_decreased(current_node_count, baseline_node_count) ==
    current_node_count < baseline_node_count

\* the outcome of the node-count dimension, r the result of `sinfo -N -h`
compare_nodes(rs, b, r) ==
    LET baseline_node_count == Get(Get(b, "system_state", EmptyDict), "total_nodes", 0)
    IN  IF r.ret = 0 THEN
            LET current_node_count == CountLines(r.out)
                details == [baseline |-> baseline_node_count, current |-> current_node_count]
            IN  IF node_count_decreased(current_node_count, baseline_node_count)
                THEN add_result(rs, CMP, <<"Node Count">>, FAIL,
                         Msg("Node count decreased: {} -> {}",
                             <<baseline_node_count, current_node_count>>), details)
                ELSE add_result(rs, CMP, <<"Node Count">>, PASS,
                         Msg("Node count preserved: {} nodes", <<current_node_count>>), details)
        ELSE rs

----------------------------------------------------------------------------
(* The standard checks *)

check_slurm_version(rs, r) ==
    IF r.ret = 0
    THEN add_result(rs, "System", <<"Slurm Version Check">>, PASS,
             Msg("Slurm is installed: {}", <<r.out>>), [version |-> r.out])
    ELSE add_result(rs, "System", <<"Slurm Version Check">>, FAIL,
             Msg("Unable to determine Slurm version: {}", <<r.err>>), [error |-> r.err])

\* the loop over the nodes of one role: outs[i] is the stripped stdout of
\* `systemctl is-active` on nodes[i]
RECURSIVE service_loop(_, _, _, _, _, _)
service_loop(rs, nodes, outs, i, label, daemon) ==
    IF i > Len(nodes) THEN rs
    ELSE LET node == nodes[i]
             is_active == outs[i] = "active"
             next == IF is_active
                     THEN add_result(rs, "Services", <<label, node>>, PASS,
                              Msg("{} is active on {}", <<daemon, node>>),
                              [node |-> node, status |-> "active"])
                     ELSE add_result(rs, "Services", <<label, node>>, FAIL,
                              Msg("{} is not active on {}: {}", <<daemon, node, outs[i]>>),
                              [node |-> node, status |-> outs[i]])
         IN  service_loop(next, nodes, outs, i + 1, label, daemon)

check_services(rs, controllers, accountings, ctl_outs, db_outs) ==
    LET rs1 == IF controllers # <<>>
               THEN service_loop(rs, controllers, ctl_outs, 1, "Slurm Controller on ", "slurmctld")
               ELSE add_result(rs, "Services", <<"Slurm Controller Discovery">>, WARN,
                        Msg("Could not discover controller nodes via cmsh", <<>>), NoDetails)
    IN  IF accountings # <<>>
        THEN service_loop(rs1, accountings, db_outs, 1, "Slurm Database on ", "slurmdbd")
        ELSE add_result(rs1, "Services", <<"Slurm Database Discovery">>, WARN,
                 Msg("Could not discover accounting nodes via cmsh", <<>>), NoDetails)

HealthyStates == {"idle", "allocated", "mixed", "completing"}

\* len(problem_nodes) < total_nodes * 0.1: the double product decides as the
\* integers do for every total below 2^50
below_tenth(problem_count, total_nodes) == problem_count * 10 < total_nodes

check_nodes_verbose_decides(rs, r, verbose) ==
    IF r.ret # 0
    THEN add_result(rs, "Nodes", <<"Node Status Check">>, FAIL,
             Msg("Unable to query node status: {}", <<r.err>>), [error |-> r.err])
    ELSE LET problem_nodes == SelectSeq(r.out, LAMBDA l : l.state \notin HealthyStates)
         IN  add_result(rs, "Nodes", <<"Node Health Check">>,
                 IF problem_nodes = <<>> THEN PASS ELSE IF verbose THEN FAIL ELSE WARN,
                 Msg("{} nodes have issues", <<Len(problem_nodes)>>), NoDetails)

\* r.out: the lines "name|state|reason" of `sinfo -N -h`, as records
check_nodes(rs, r, verbose) ==
    IF r.ret # 0
    THEN add_result(rs, "Nodes", <<"Node Status Check">>, FAIL,
             Msg("Unable to query node status: {}", <<r.err>>), [error |-> r.err])
    ELSE LET lines == r.out
             nodes == {lines[i].name : i \in DOMAIN lines}
             problem_nodes == SelectSeq(lines, LAMBDA l : l.state \notin HealthyStates)
             total_nodes == Cardinality(nodes)
             status == IF problem_nodes # <<>>
                       THEN (IF below_tenth(Len(problem_nodes), total_nodes) THEN WARN ELSE FAIL)
                       ELSE PASS
             shown == IF problem_nodes # <<>> /\ (verbose \/ status = FAIL)
                      THEN SubSeq(problem_nodes, 1, IF Len(problem_nodes) < 5 THEN Len(problem_nodes) ELSE 5)
                      ELSE <<>>
             message == IF problem_nodes # <<>>
                        THEN Msg("{} of {} nodes have issues", <<Len(problem_nodes), total_nodes, shown>>)
                        ELSE Msg("All {} nodes are healthy", <<total_nodes>>)
         IN  add_result(rs, "Nodes", <<"Node Health Check">>, status, message,
                 [total_nodes |-> total_nodes, problem_count |-> Len(problem_nodes)])

check_slurmdbd_connection(rs, r) ==
    IF r.ret = 0 /\ r.out # <<>>
    THEN add_result(rs, "Accounting", <<"Database Connection">>, PASS,
             Msg("slurmdbd is accessible, found {} cluster(s)", <<CountLines(r.out)>>),
             [clusters |-> r.out])
    ELSE add_result(rs, "Accounting", <<"Database Connection">>, FAIL,
             Msg("Unable to connect to slurmdbd: {}", <<r.err>>), [error |-> r.err])

\* the stderr texts that contain "No jobs"
FailedNoJobs == [ret |-> 1, out |-> <<>>, err |-> "No jobs"]

check_job_history(rs, r) ==
    IF r.ret = 0
    THEN add_result(rs, "Accounting", <<"Job History Access">>, PASS,
             Msg("Job history accessible ({} jobs in last 7 days)", <<CountLines(r.out)>>),
             [recent_job_count |-> CountLines(r.out)])
    ELSE add_result(rs, "Accounting", <<"Job History Access">>,
             IF r.err = FailedNoJobs.err THEN WARN ELSE FAIL,
             Msg("Issue accessing job history: {}", <<r.err>>), [error |-> r.err])

check_partitions_warning_without_message(rs, r) ==
    IF r.ret = 0 /\ r.out = {}
    THEN add_result(rs, "Configuration", <<"Partition Check">>, WARN, NoMessage, NoDetails)
    ELSE add_result(rs, "Configuration", <<"Partition Check">>, PASS,
             Msg("Found {} partition(s)", <<0>>), NoDetails)

\* r.out: the partition names of the well-formed lines of `sinfo -h -o %R|%a|%l|%D|%T`
check_partitions(rs, r) ==
    IF r.ret # 0
    THEN add_result(rs, "Configuration", <<"Partition Check">>, FAIL,
             Msg("Unable to query partitions: {}", <<r.err>>), [error |-> r.err])
    ELSE IF r.out # {}
    THEN add_result(rs, "Configuration", <<"Partition Check">>, PASS,
             Msg("Found {} partition(s)", <<Cardinality(r.out)>>), [partitions |-> r.out])
    ELSE add_result(rs, "Configuration", <<"Partition Check">>, WARN,
             Msg("No partitions found", <<>>), NoDetails)

\* active: stripped stdout of `systemctl is-active munge.service`;
\* encode: result of `munge -n`; decode: result of the unmunge pipeline
check_munge(rs, active, encode, decode) ==
    IF active = "active"
    THEN LET status == IF encode.ret = 0 /\ encode.out # ""
                       THEN (IF decode.ret = 0 THEN PASS ELSE WARN)
                       ELSE WARN
             message == IF encode.ret = 0 /\ encode.out # ""
                        THEN (IF decode.ret = 0
                              THEN Msg("Munge authentication working", <<>>)
                              ELSE Msg("Munge encode works but decode failed", <<>>))
                        ELSE Msg("Munge service active but encode test failed", <<>>)
         IN  add_result(rs, "Authentication", <<"Munge Service">>, status, message, NoDetails)
    ELSE add_result(rs, "Authentication", <<"Munge Service">>, FAIL,
             Msg("Munge is not active: {}", <<active>>), [status |-> active])

\* one log: journal and tail are the results of journalctl and of the fallback
\* tail; the output of a command that succeeded is its number of lines that
\* match error|fatal|critical
check_log(rs, nodes, label, log_file, journal, tail, verbose) ==
    IF nodes = <<>> THEN rs
    ELSE LET node == nodes[1]
             r == IF journal.ret # 0 THEN tail ELSE journal
         IN  IF r.ret # 0
             THEN add_result(rs, "Logs", <<label, node>>, SKIP,
                      Msg("Unable to read logs (tried journalctl and {})", <<log_file>>), NoDetails)
             ELSE IF r.out > 0
             THEN add_result(rs, "Logs", <<label, node>>, WARN,
                      Msg("Found {} error/warning line(s) in last 100 lines", <<r.out, verbose>>),
                      [error_count |-> r.out, node |-> node])
             ELSE add_result(rs, "Logs", <<label, node>>, PASS,
                      Msg("No recent errors found", <<>>),
                      [error_count |-> r.out, node |-> node])

check_logs(rs, controllers, accountings, ctl_journal, ctl_tail, db_journal, db_tail, verbose) ==
    check_log(check_log(rs, controllers, "Controller Log on ", "/var/log/slurm/slurmctld.log",
                        ctl_journal, ctl_tail, verbose),
              accountings, "Database Log on ", "/var/log/slurm/slurmdbd.log",
              db_journal, db_tail, verbose)

\* found: some path of pyxis_paths exists; which: result of `which enroot`
check_pyxis(rs, found, which) ==
    IF ~found
    THEN add_result(rs, "Pyxis", <<"Pyxis Installation">>, SKIP,
             Msg("Pyxis plugin not found (may not be installed)", <<>>), [checked_paths |-> 3])
    ELSE IF which.ret = 0
    THEN add_result(
             add_result(rs, "Pyxis", <<"Enroot Installation">>, PASS,
                 Msg("Enroot found at {}", <<which.out>>), [path |-> which.out]),
             "Pyxis", <<"Pyxis Plugin">>, PASS,
             Msg("Pyxis plugin found at {}", <<"path">>), [plugin_path |-> "path"])
    ELSE add_result(rs, "Pyxis", <<"Enroot Installation">>, WARN,
             Msg("Pyxis plugin found but enroot not in PATH", <<>>), [plugin_path |-> "path"])

\* created: the test script could be written; srun: result of srun
check_job_submission(rs, created, srun) ==
    IF ~created
    THEN add_result(rs, "Job Submission", <<"Basic Job Test">>, SKIP,
             Msg("Unable to create test script: {}", <<"exception text">>), NoDetails)
    ELSE IF srun.ret = 0
    THEN add_result(rs, "Job Submission", <<"Basic Job Test">>, PASS,
             Msg("Job submission successful (elapsed: {}s)", <<"elapsed">>), [output |-> srun.out])
    ELSE add_result(rs, "Job Submission", <<"Basic Job Test">>, FAIL,
             Msg("Job submission failed: {}", <<srun.err>>), [error |-> srun.err])

----------------------------------------------------------------------------
(* Results of the commands, per command *)

VersionResults   == {Ok(v) : v \in Versions} \cup {Failed("")}
CountResults     == {Ok(Lines(n)) : n \in Counts} \cup {Failed(<<>>)}
JobResults       == {Ok(Lines(n)) : n \in JobCounts} \cup {Failed(<<>>)}
PartitionResults == {Ok(ps) : ps \in SUBSET PartitionNames} \cup {Failed({})}

NominalVersionResult   == Ok(NominalVersion)
NominalCountResult     == Ok(Lines(NominalCount))
NominalJobResult       == Ok(Lines(NominalJobCount))
NominalPartitionResult == Ok(NominalPartitions)

\* whether `cost` more inputs may depart from the nominal ones
Within(cost) == departures + cost <= budget

----------------------------------------------------------------------------
(* main() *)

\* no baseline file written
NoFile == <<>>

\* results.tests: the list the HealthcheckResults object holds, as it is now
Tests == IF report.shared THEN results ELSE report.own

Flags == [pre_upgrade : BOOLEAN, post_upgrade : BOOLEAN, compare_only : BOOLEAN, baseline : BOOLEAN,
          json : BOOLEAN, quiet : BOOLEAN, output : BOOLEAN, verbose : BOOLEAN]

\* the switches json, quiet, output and verbose are off in the nominal run
FlagCost(a) == Dep(a.json, FALSE) + Dep(a.quiet, FALSE) + Dep(a.output, FALSE)
                   + Dep(a.verbose, FALSE)

\* self.quiet: quiet=args.quiet or args.json
quiet(a) == a.quiet \/ a.json

StartHealthcheck(position, a, max) ==
    /\ pc = position
    /\ budget = max
    /\ FlagCost(a) <= max
    /\ args = a
    /\ baseline = NoBaseline
    /\ results = <<>>
    /\ data_type = 1
    /\ cmd = NoCmd
    /\ controller_nodes = <<>>
    /\ accounting_nodes = <<>>
    /\ departures = FlagCost(a)
    /\ reported = "none"
    /\ exitCode = -1
    /\ report = NoReport
    /\ file = NoFile
    /\ console = <<>>
    /\ twin = <<>>

Start(position, a, max) ==
    /\ StartHealthcheck(position, a, max)
    /\ transfer = NoTransfer
    /\ backup = NoBackupRun

Init == \E a \in Flags : Start("main", a, MaxRunDepartures)

SysExit_without_status(code) ==
    /\ pc' = "exited"
    /\ exitCode' = 0

\* sys.exit(code)
SysExit(code) ==
    /\ pc' = "exited"
    /\ exitCode' = code

\* the validation of the arguments
ValidateArgs ==
    /\ pc = "main"
    /\ IF (args.post_upgrade /\ ~args.baseline) \/ (args.compare_only /\ ~args.baseline)
       THEN SysExit(2)
       ELSE pc' = "construct" /\ UNCHANGED exitCode
    /\ UNCHANGED <<args, budget, report, file, baseline, results, twin, console, data_type, cmd, controller_nodes,
                   accounting_nodes, departures, reported, transfer, backup>>

NodeLists == {<<>>, <<"node1">>, <<"node1", "node2">>}
NominalNodeList == <<"node1">>

\* SlurmHealthcheck(...): the discovery of the controller and accounting nodes
Construct ==
    /\ pc = "construct"
    /\ \E c \in NodeLists, a \in NodeLists :
          LET cost == Dep(c, NominalNodeList) + Dep(a, NominalNodeList) IN
          /\ Within(cost)
          /\ departures' = departures + cost
          /\ controller_nodes' = c
          /\ accounting_nodes' = a
    /\ pc' = IF args.pre_upgrade THEN "capture_version"
             ELSE IF args.post_upgrade \/ args.compare_only THEN "load_baseline"
             ELSE "check_slurm_version"
    /\ UNCHANGED <<args, budget, report, file, baseline, results, twin, console, data_type, cmd, reported, exitCode, transfer, backup>>

\* json.load of the baseline file
LoadBaseline ==
    /\ pc = "load_baseline"
    /\ \E ver \in Versions \cup {None} :
       LET c1 == Dep(ver, "v1") IN
       /\ Within(c1)
       /\ \E acct \in AccountingCounts(budget - departures - c1) :
          LET c2 == c1 + Cardinality({t \in AccountingTypeSet : acct[t] # NominalCount}) IN
          \E job \in Optional(JobCounts) :
          LET c3 == c2 + Dep(job, {NominalJobCount}) IN
          /\ Within(c3)
          /\ \E parts \in Optional(SUBSET PartitionNames) :
             LET c4 == c3 + Dep(parts, {NominalPartitions}) IN
             /\ Within(c4)
             /\ \E nodes \in Optional(Counts) :
                LET c5 == c4 + Dep(nodes, {NominalCount}) IN
                /\ Within(c5)
                /\ departures' = departures + c5
                /\ baseline' = BaselineDoc(ver, acct, job, parts, nodes)
    /\ pc' = "compare_version"
    /\ UNCHANGED <<args, budget, report, file, results, twin, console, data_type, cmd, controller_nodes, accounting_nodes,
                   reported, exitCode, transfer, backup>>

\* except FileNotFoundError / except json.JSONDecodeError
LoadBaselineFails ==
    /\ pc = "load_baseline"
    /\ Within(1)
    /\ departures' = departures + 1
    /\ SysExit(2)
    /\ UNCHANGED <<args, budget, report, file, baseline, results, twin, console, data_type, cmd, controller_nodes,
                   accounting_nodes, reported, transfer, backup>>

\* an exception that main does not catch (another OSError of open, a
\* UnicodeDecodeError, the AttributeError of .get on a document that is not a
\* JSON object): the interpreter prints the traceback and exits with 1
LoadBaselineRaises ==
    /\ pc = "load_baseline"
    /\ Within(1)
    /\ departures' = departures + 1
    /\ SysExit(1)
    /\ UNCHANGED <<args, budget, report, file, baseline, results, twin, console, data_type, cmd,
                   controller_nodes, accounting_nodes, reported, transfer, backup>>

----------------------------------------------------------------------------
(* compare_baseline, one action per dimension (per run_command call) *)

\* a step of compare_baseline: run the command (result r), record, go on
CompareStep(here, r, nominal, compared, twinned, there) ==
    /\ pc = here
    /\ Within(DepCmd(r, nominal))
    /\ departures' = departures + DepCmd(r, nominal)
    /\ cmd' = r
    /\ results' = compared
    /\ twin' = twinned
    /\ console' = printed(console, results, results', quiet(args), args.verbose)
    /\ pc' = there
    /\ UNCHANGED <<args, budget, report, file, baseline, controller_nodes, accounting_nodes, reported, exitCode, transfer, backup>>

CompareVersion ==
    \E r \in VersionResults :
        /\ CompareStep("compare_version", r, NominalVersionResult,
                       compare_version(results, baseline, r),
                       compare_version(twin, baseline, r), "compare_accounting")
        /\ data_type' = 1

CompareAccounting ==
    \E r \in CountResults :
        /\ CompareStep("compare_accounting", r, NominalCountResult,
                       compare_accounting(results, baseline, AccountingTypes[data_type], r),
                       compare_accounting(twin, baseline, AccountingTypes[data_type], r),
                       IF data_type < Len(AccountingTypes) THEN "compare_accounting"
                                                           ELSE "compare_jobs")
        /\ data_type' = IF data_type < Len(AccountingTypes) THEN data_type + 1 ELSE data_type

CompareJobs ==
    \E r \in JobResults :
        /\ CompareStep("compare_jobs", r, NominalJobResult,
                       compare_jobs(results, baseline, r),
                       compare_jobs(twin, baseline, r), "compare_partitions")
        /\ UNCHANGED data_type

ComparePartitions ==
    \E r \in PartitionResults :
        /\ CompareStep("compare_partitions", r, NominalPartitionResult,
                       compare_partitions(results, baseline, r),
                       compare_partitions(twin, baseline, r), "compare_nodes")
        /\ UNCHANGED data_type

after_compare_always_checks(a) == "check_slurm_version"

\* if not args.compare_only: healthcheck.run_all_checks()
after_compare(a) == IF a.compare_only THEN "get_results" ELSE "check_slurm_version"

\* the last dimension; main then runs the standard checks unless --compare-only
CompareNodes ==
    \E r \in CountResults :
        /\ CompareStep("compare_nodes", r, NominalCountResult,
                       compare_nodes(results, baseline, r),
                       compare_nodes(twin, baseline, r), after_compare(args))
        /\ UNCHANGED data_type

----------------------------------------------------------------------------
(* --pre-upgrade: capture_baseline, one action per run_command call, and the
   writing of the baseline file *)

CaptureStep_failure_exits(here, r, nominal, b, there) ==
    /\ pc = here
    /\ Within(DepCmd(r, nominal))
    /\ departures' = departures + DepCmd(r, nominal)
    /\ cmd' = r
    /\ baseline' = b
    /\ pc' = IF r.ret # 0 THEN "exited" ELSE there
    /\ UNCHANGED <<args, budget, report, file, results, twin, console, controller_nodes,
                   accounting_nodes, reported, exitCode, transfer, backup>>

\* a step of capture_baseline: run the command (result r), extend the document
CaptureStep(here, r, nominal, b, there) ==
    /\ pc = here
    /\ Within(DepCmd(r, nominal))
    /\ departures' = departures + DepCmd(r, nominal)
    /\ cmd' = r
    /\ baseline' = b
    /\ pc' = there
    /\ UNCHANGED <<args, budget, report, file, results, twin, console, controller_nodes, accounting_nodes,
                   reported, exitCode, transfer, backup>>

CaptureVersion ==
    \E r \in VersionResults :
        /\ CaptureStep("capture_version", r, Ok("v1"),
                       capture_version(InitialBaseline, r), "capture_accounting")
        /\ data_type' = 1

\* the loop over accounting_commands; data_type is the index of its key
CaptureAccounting ==
    \E r \in CountResults :
        /\ CaptureStep("capture_accounting", r, NominalCountResult,
                       capture_accounting(baseline, AccountingCommands[data_type], r),
                       IF data_type < Len(AccountingCommands) THEN "capture_accounting"
                                                              ELSE "capture_jobs")
        /\ data_type' = IF data_type < Len(AccountingCommands) THEN data_type + 1 ELSE data_type

CaptureJobs ==
    \E r \in JobResults :
        /\ CaptureStep("capture_jobs", r, NominalJobResult,
                       capture_jobs(baseline, r), "capture_partitions")
        /\ UNCHANGED data_type

CapturePartitions ==
    \E r \in PartitionResults :
        /\ CaptureStep("capture_partitions", r, NominalPartitionResult,
                       capture_partitions(baseline, r), "capture_nodes")
        /\ UNCHANGED data_type

CaptureNodes ==
    \E r \in CountResults :
        /\ CaptureStep("capture_nodes", r, NominalCountResult,
                       capture_nodes(baseline, r), "capture_states")
        /\ UNCHANGED data_type

CaptureStates ==
    \E r \in CountResults :
        /\ CaptureStep("capture_states", r, NominalCountResult,
                       capture_states(baseline, r), "write_baseline")
        /\ UNCHANGED data_type

\* json.dump(baseline, f, indent=2); sys.exit(0)
WriteBaseline ==
    /\ pc = "write_baseline"
    /\ file' = json_dump(baseline)
    /\ SysExit(0)
    /\ UNCHANGED <<args, budget, report, baseline, results, twin, console, data_type, cmd, controller_nodes,
                   accounting_nodes, departures, reported, transfer, backup>>

\* open(output_file, 'w') raises (no such directory, no permission): the
\* exception is not caught, the interpreter exits with 1 and no file is written
WriteBaselineRaises ==
    /\ pc = "write_baseline"
    /\ Within(1)
    /\ departures' = departures + 1
    /\ SysExit(1)
    /\ UNCHANGED <<args, budget, report, file, baseline, results, twin, console, data_type, cmd,
                   controller_nodes, accounting_nodes, reported, transfer, backup>>

----------------------------------------------------------------------------
(* run_all_checks, one action per check *)

\* a check: its inputs cost `cost`, r is the result of the last command it
\* ran (NoCmd when it ran none), checked are the results it leaves, twinned
\* the results it leaves in the run that differs in self.verbose
CheckStep(here, cost, r, checked, twinned, there) ==
    /\ pc = here
    /\ Within(cost)
    /\ departures' = departures + cost
    /\ cmd' = r
    /\ results' = checked
    /\ twin' = twinned
    /\ console' = printed(console, results, results', quiet(args), args.verbose)
    /\ pc' = there
    /\ UNCHANGED <<args, budget, report, file, baseline, data_type, controller_nodes,
                   accounting_nodes, reported, exitCode, transfer, backup>>

CheckSlurmVersion ==
    \E r \in VersionResults :
        CheckStep("check_slurm_version", DepCmd(r, NominalVersionResult), r,
                  check_slurm_version(results, r),
                  check_slurm_version(twin, r), "check_services")

\* the stripped stdout of `systemctl is-active`; empty when the command could
\* not be run (ssh failed, no systemctl)
ServiceStates == {"active", "inactive", ""}
Inactive(outs) == Cardinality({i \in DOMAIN outs : outs[i] # "active"})

\* (returncode, stdout, stderr) of `systemctl is-active` for a stdout: 0 for
\* active, 3 for another state, and the failure to run it
ServiceResult(out) ==
    IF out = "active" THEN Ok(out)
    ELSE IF out = "" THEN Failed(out)
    ELSE [ret |-> 3, out |-> out, err |-> ""]

\* the result of the last `systemctl is-active` of check_services
LastServiceResult(ctl, db) ==
    IF Len(db) > 0 THEN ServiceResult(db[Len(db)])
    ELSE IF Len(ctl) > 0 THEN ServiceResult(ctl[Len(ctl)])
    ELSE NoCmd

CheckServices ==
    \E ctl \in [DOMAIN controller_nodes -> ServiceStates],
       db \in [DOMAIN accounting_nodes -> ServiceStates] :
        CheckStep("check_services", Inactive(ctl) + Inactive(db), LastServiceResult(ctl, db),
                  check_services(results, controller_nodes, accounting_nodes, ctl, db),
                  check_services(twin, controller_nodes, accounting_nodes, ctl, db),
                  "check_nodes")

\* the lines of t nodes, the first p of them down; `sinfo -N` prints a node
\* once for each partition it belongs to: the first d nodes belong to a second
\* partition and have a second line
NodeLines(t, p, d) ==
    [i \in 1..(t + d) |->
        LET n == IF i <= t THEN i ELSE i - t
        IN  [name |-> n, state |-> IF n <= p THEN "down" ELSE "idle", reason |-> ""]]
NodeShapes == {<<0, 0, 0>>, <<NominalCount, 0, 0>>, <<1, 1, 0>>, <<10, 1, 0>>, <<11, 1, 0>>,
               <<11, 1, 1>>}
NodeResults == {Ok(NodeLines(s[1], s[2], s[3])) : s \in NodeShapes} \cup {Failed(<<>>)}

CheckNodes ==
    \E r \in NodeResults :
        CheckStep("check_nodes", DepCmd(r, Ok(NodeLines(NominalCount, 0, 0))), r,
                  check_nodes(results, r, args.verbose),
                  check_nodes(twin, r, ~args.verbose), "check_slurmdbd_connection")

CheckSlurmdbdConnection ==
    \E r \in CountResults :
        CheckStep("check_slurmdbd_connection", DepCmd(r, NominalCountResult), r,
                  check_slurmdbd_connection(results, r),
                  check_slurmdbd_connection(twin, r), "check_job_history")

CheckJobHistory ==
    \E r \in CountResults \cup {FailedNoJobs} :
        CheckStep("check_job_history", DepCmd(r, NominalCountResult), r,
                  check_job_history(results, r),
                  check_job_history(twin, r), "check_partitions")

CheckPartitions ==
    \E r \in PartitionResults :
        CheckStep("check_partitions", DepCmd(r, NominalPartitionResult), r,
                  check_partitions(results, r),
                  check_partitions(twin, r), "check_munge")

\* the commands of check_munge that are not run have no result to choose
CheckMunge ==
    \E active \in ServiceStates, encode \in {Ok("credential"), Ok(""), Failed("")},
       decode \in {Ok("decoded"), Failed("")} :
        /\ active # "active" => encode = Ok("credential")
        /\ (active # "active" \/ encode # Ok("credential")) => decode = Ok("decoded")
        /\ CheckStep("check_munge",
                     Dep(active, "active") + Dep(encode, Ok("credential"))
                         + Dep(decode, Ok("decoded")),
                     IF active # "active" THEN ServiceResult(active)
                     ELSE IF encode.ret = 0 /\ encode.out # "" THEN decode ELSE encode,
                     check_munge(results, active, encode, decode),
                     check_munge(twin, active, encode, decode), "check_logs")

LogResults == {Ok(0), Ok(1), Failed(0)}

\* the fallback tail runs only when journalctl failed
CheckLogs ==
    \E cj \in LogResults, ct \in LogResults, dj \in LogResults, dt \in LogResults :
        /\ (controller_nodes = <<>> => DepCmd(cj, Ok(0)) = 0)
        /\ (cj.ret = 0 => DepCmd(ct, Ok(0)) = 0)
        /\ (accounting_nodes = <<>> => DepCmd(dj, Ok(0)) = 0)
        /\ (dj.ret = 0 => DepCmd(dt, Ok(0)) = 0)
        /\ CheckStep("check_logs",
                     DepCmd(cj, Ok(0)) + DepCmd(ct, Ok(0)) + DepCmd(dj, Ok(0))
                         + DepCmd(dt, Ok(0)),
                     IF accounting_nodes # <<>> THEN (IF dj.ret # 0 THEN dt ELSE dj)
                     ELSE IF controller_nodes # <<>> THEN (IF cj.ret # 0 THEN ct ELSE cj)
                     ELSE NoCmd,
                     check_logs(results, controller_nodes, accounting_nodes, cj, ct, dj, dt, args.verbose),
                     check_logs(twin, controller_nodes, accounting_nodes, cj, ct, dj, dt, ~args.verbose),
                     "check_pyxis")

CheckPyxis ==
    \E found \in BOOLEAN, which \in {Ok("/usr/bin/enroot"), Failed("")} :
        /\ ~found => which = Ok("/usr/bin/enroot")
        /\ CheckStep("check_pyxis", Dep(found, TRUE) + Dep(which, Ok("/usr/bin/enroot")),
                     IF found THEN which ELSE NoCmd,
                     check_pyxis(results, found, which),
                     check_pyxis(twin, found, which), "check_job_submission")

CheckJobSubmission ==
    \E created \in BOOLEAN, srun \in {Ok("job output"), Failed("")} :
        /\ ~created => srun = Ok("job output")
        /\ CheckStep("check_job_submission",
                     Dep(created, TRUE) + Dep(srun, Ok("job output")),
                     IF created THEN srun ELSE NoCmd,
                     check_job_submission(results, created, srun),
                     check_job_submission(twin, created, srun), "get_results")

----------------------------------------------------------------------------
(* The report and the exit code *)

\* results = healthcheck.get_results(): tests is the list self.results itself
GetResults ==
    /\ pc = "get_results"
    /\ pc' = "output"
    /\ report' = get_results(results)
    /\ UNCHANGED <<args, budget, file, baseline, results, twin, console, data_type, cmd, controller_nodes,
                   accounting_nodes, departures, reported, exitCode, transfer, backup>>

\* the JSON document, or print_summary and the text file: the overall status
\* is written unless the run is quiet, not --json and has no --output
Output ==
    /\ pc = "output"
    /\ reported' = IF args.json \/ ~args.quiet \/ args.output
                   THEN overall_status(Tests) ELSE "none"
    /\ pc' = "exit"
    /\ UNCHANGED <<args, budget, report, file, baseline, results, twin, console, data_type, cmd, controller_nodes,
                   accounting_nodes, departures, exitCode, transfer, backup>>

exit_code_swapped(tests) ==
    LET s == summary(tests) IN
    IF s.failed > 0 THEN 1 ELSE IF s.warnings > 0 THEN 2 ELSE 0

\* summary = results.summary(); sys.exit(2 / 1 / 0)
exit_code(tests) ==
    LET s == summary(tests) IN
    IF s.failed > 0 THEN 2 ELSE IF s.warnings > 0 THEN 1 ELSE 0

Exit ==
    /\ pc = "exit"
    /\ SysExit(exit_code(Tests))
    /\ UNCHANGED <<args, budget, report, file, baseline, results, twin, console, data_type, cmd, controller_nodes,
                   accounting_nodes, departures, reported, transfer, backup>>

Next ==
    \/ ValidateArgs \/ Construct \/ LoadBaseline \/ LoadBaselineFails \/ LoadBaselineRaises
    \/ CaptureVersion \/ CaptureAccounting \/ CaptureJobs \/ CapturePartitions \/ CaptureNodes
    \/ CaptureStates \/ WriteBaseline \/ WriteBaselineRaises
    \/ CompareVersion \/ CompareAccounting \/ CompareJobs \/ ComparePartitions \/ CompareNodes
    \/ CheckSlurmVersion \/ CheckServices \/ CheckNodes \/ CheckSlurmdbdConnection
    \/ CheckJobHistory \/ CheckPartitions \/ CheckMunge \/ CheckLogs \/ CheckPyxis
    \/ CheckJobSubmission
    \/ GetResults \/ Output \/ Exit

Spec == Init /\ [][Next]_vars

\* the runs with --compare-only and a baseline file
InitCompare == \E a \in Flags :
    ~a.pre_upgrade /\ a.compare_only /\ a.baseline /\ Start("main", a, MaxDepartures)

NextCompare ==
    \/ ValidateArgs \/ Construct \/ LoadBaseline \/ LoadBaselineFails \/ LoadBaselineRaises
    \/ CompareVersion \/ CompareAccounting \/ CompareJobs \/ ComparePartitions \/ CompareNodes
    \/ GetResults \/ Output \/ Exit

SpecCompare == InitCompare /\ [][NextCompare]_vars

----------------------------------------------------------------------------
(* A --pre-upgrade run, and the --post-upgrade run that reads its file *)

InitBaseline == \E a \in Flags :
    /\ a.pre_upgrade /\ ~a.post_upgrade /\ ~a.compare_only /\ ~a.baseline
    /\ Start("main", a, MaxDepartures)

\* the tool is started again, with --post-upgrade --baseline <the file written>
PostUpgradeRun ==
    /\ pc = "exited"
    /\ args.pre_upgrade /\ exitCode = 0
    /\ args' = [args EXCEPT !.pre_upgrade = FALSE, !.post_upgrade = TRUE, !.baseline = TRUE]
    /\ pc' = "main"
    /\ baseline' = NoBaseline
    /\ results' = <<>>
    /\ console' = <<>>
    /\ twin' = <<>>
    /\ data_type' = 1
    /\ cmd' = NoCmd
    /\ controller_nodes' = <<>>
    /\ accounting_nodes' = <<>>
    /\ reported' = "none"
    /\ exitCode' = -1
    /\ report' = NoReport
    /\ UNCHANGED <<budget, departures, file, transfer, backup>>

\* baseline = json.load(f), f the file that the --pre-upgrade run wrote
ReadBaseline ==
    /\ pc = "load_baseline"
    /\ file # NoFile
    /\ baseline' = json_load(file)
    /\ pc' = "compare_version"
    /\ UNCHANGED <<args, budget, report, file, results, twin, console, data_type, cmd, controller_nodes,
                   accounting_nodes, departures, reported, exitCode, transfer, backup>>

NextBaseline ==
    \/ ValidateArgs \/ Construct
    \/ CaptureVersion \/ CaptureAccounting \/ CaptureJobs \/ CapturePartitions \/ CaptureNodes
    \/ CaptureStates \/ WriteBaseline \/ WriteBaselineRaises
    \/ PostUpgradeRun \/ ReadBaseline

SpecBaseline == InitBaseline /\ [][NextBaseline]_vars

----------------------------------------------------------------------------
(* A --pre-upgrade run on a cluster where any of the capture commands fails *)

\* the run_command calls of capture_baseline
CaptureCommands == Len(AccountingCommands) + 5

\* the switches json, quiet, output and verbose are off
InitCapture == \E a \in Flags :
    a.pre_upgrade /\ FlagCost(a) = 0 /\ Start("main", a, CaptureCommands)

\* the command of the step failed, or it succeeded with the nominal output
NominalOrFailed == departures' > departures => cmd'.ret # 0

\* cmsh discovers the nominal node lists
ConstructNominal        == Construct /\ departures' = departures
CaptureVersionOrFail    == CaptureVersion /\ NominalOrFailed
CaptureAccountingOrFail == CaptureAccounting /\ NominalOrFailed
CaptureJobsOrFail       == CaptureJobs /\ NominalOrFailed
CapturePartitionsOrFail == CapturePartitions /\ NominalOrFailed
CaptureNodesOrFail      == CaptureNodes /\ NominalOrFailed
CaptureStatesOrFail     == CaptureStates /\ NominalOrFailed

NextCapture ==
    \/ ValidateArgs \/ ConstructNominal
    \/ CaptureVersionOrFail \/ CaptureAccountingOrFail \/ CaptureJobsOrFail
    \/ CapturePartitionsOrFail \/ CaptureNodesOrFail \/ CaptureStatesOrFail
    \/ WriteBaseline \/ WriteBaselineRaises

SpecCapture == InitCapture /\ [][NextCapture]_vars

----------------------------------------------------------------------------
(* A --pre-upgrade run, and the --compare-only run that compares with its file *)

\* the tool is started again, with --compare-only --baseline <the file written>
CompareOnlyRun ==
    /\ pc = "exited"
    /\ args.pre_upgrade /\ exitCode = 0
    /\ args' = [args EXCEPT !.pre_upgrade = FALSE, !.compare_only = TRUE, !.baseline = TRUE]
    /\ pc' = "main"
    /\ baseline' = NoBaseline
    /\ results' = <<>>
    /\ console' = <<>>
    /\ twin' = <<>>
    /\ data_type' = 1
    /\ cmd' = NoCmd
    /\ controller_nodes' = <<>>
    /\ accounting_nodes' = <<>>
    /\ reported' = "none"
    /\ exitCode' = -1
    /\ report' = NoReport
    /\ UNCHANGED <<budget, departures, file, transfer, backup>>

\* the loaded document as compare_baseline reads it: None, the strings and the
\* numbers themselves, a list as the sequence of its elements, a dict as the
\* function from its keys
RECURSIVE Plain(_)
Plain(v) ==
    CASE v.kind = "NoneType" -> None
      [] v.kind = "list" -> [i \in DOMAIN v.val |-> Plain(v.val[i])]
      [] v.kind = "dict" -> [k \in {v.val[i].key : i \in DOMAIN v.val} |-> Plain(PyGetItem(v, k))]
      [] OTHER -> v.val

\* baseline = json.load(f); healthcheck.compare_baseline(baseline)
ReadBaselineDoc ==
    /\ pc = "load_baseline"
    /\ file # NoFile
    /\ baseline' = Plain(json_load(file))
    /\ pc' = "compare_version"
    /\ UNCHANGED <<args, budget, report, file, results, twin, console, data_type, cmd, controller_nodes,
                   accounting_nodes, departures, reported, exitCode, transfer, backup>>

NextUpgrade ==
    \/ ValidateArgs \/ Construct
    \/ CaptureVersion \/ CaptureAccounting \/ CaptureJobs \/ CapturePartitions \/ CaptureNodes
    \/ CaptureStates \/ WriteBaseline \/ WriteBaselineRaises
    \/ CompareOnlyRun \/ ReadBaselineDoc
    \/ CompareVersion \/ CompareAccounting \/ CompareJobs \/ ComparePartitions \/ CompareNodes
    \/ GetResults \/ Output \/ Exit

SpecUpgrade == InitBaseline /\ [][NextUpgrade]_vars

----------------------------------------------------------------------------
(* The accumulator alone: any sequence of add_result calls *)

DefaultFlags == [pre_upgrade |-> FALSE, post_upgrade |-> FALSE, compare_only |-> FALSE, baseline |-> FALSE,
                 json |-> FALSE, quiet |-> FALSE, output |-> FALSE, verbose |-> FALSE]

InitReport == Start("add_result", DefaultFlags, 0)

AddResult ==
    /\ pc = "add_result"
    /\ Len(results) < MaxTests
    /\ \E status \in TestStatus, message \in {NoMessage, Msg("message", <<>>)} :
          /\ results' = add_result(results, "Category", <<"name">>, status, message, NoDetails)
          /\ twin' = add_result(twin, "Category", <<"name">>, status, message, NoDetails)
          /\ console' = printed(console, results, results', quiet(args), args.verbose)
    /\ UNCHANGED <<pc, args, budget, report, file, baseline, data_type, cmd, controller_nodes, accounting_nodes,
                   departures, reported, exitCode, transfer, backup>>

NextReport == AddResult

SpecReport == InitReport /\ [][NextReport]_vars

\* a caller takes the report object, at any time between two add_result calls
ReportGetResults ==
    /\ pc = "add_result"
    /\ report' = get_results(results)
    /\ UNCHANGED <<pc, args, budget, file, baseline, results, twin, console, data_type, cmd, controller_nodes,
                   accounting_nodes, departures, reported, exitCode, transfer, backup>>

NextReportObject == AddResult \/ ReportGetResults

SpecReportObject == InitReport /\ [][NextReportObject]_vars

----------------------------------------------------------------------------
(* Properties of the accumulator (SpecReport) *)

Statuses(tests) == {tests[i].status : i \in DOMAIN tests}

\* C1: after any sequence of add_result calls, summary().total is the number
\* of recorded outcomes and passed + failed + warnings + skipped is the total
C1_SummaryCounts ==
    LET s == summary(results) IN
    /\ s.total = Len(results)
    /\ s.passed + s.failed + s.warnings + s.skipped = s.total

C1_Witness ==
    /\ Statuses(results) = TestStatus
    /\ summary(results).total = MaxTests

\* C2: overall_status() is CRITICAL exactly when some outcome is FAIL, whatever
\* the other outcomes are; summary().failed is the number of FAIL outcomes
C2_CriticalIffFail ==
    /\ overall_status(results) = "CRITICAL" <=> FAIL \in Statuses(results)
    /\ summary(results).failed = Cardinality({i \in DOMAIN results : results[i].status = FAIL})

\* one FAIL after a WARN, the rest PASS
C2_Witness ==
    /\ Len(results) = MaxTests
    /\ results[1].status = WARN
    /\ results[Len(results)].status = FAIL
    /\ summary(results).failed = 1
    /\ summary(results).passed = MaxTests - 2
    /\ overall_status(results) = "CRITICAL"

\* C3: overall_status() is DEGRADED exactly when no outcome is FAIL and some
\* outcome is WARN
C3_DegradedIffWarnNoFail ==
    overall_status(results) = "DEGRADED"
        <=> (FAIL \notin Statuses(results) /\ WARN \in Statuses(results))

C3_Witness ==
    /\ Statuses(results) = {PASS, WARN, SKIP}
    /\ overall_status(results) = "DEGRADED"

\* C4: overall_status() is HEALTHY exactly when every outcome is PASS or SKIP;
\* the empty report has an all-zero summary and is HEALTHY
C4_HealthyIffPassOrSkip ==
    /\ overall_status(results) = "HEALTHY" <=> Statuses(results) \subseteq {PASS, SKIP}
    /\ results = <<>> =>
          /\ summary(results) = [total |-> 0, passed |-> 0, failed |-> 0,
                                  warnings |-> 0, skipped |-> 0]
          /\ overall_status(results) = "HEALTHY"

C4_Witness ==
    /\ Statuses(results) = {PASS, SKIP}
    /\ summary(results).skipped >= 2
    /\ overall_status(results) = "HEALTHY"

----------------------------------------------------------------------------
(* The exit code (Spec) *)

ExitCodeFor(status) ==
    CASE status = "HEALTHY"  -> 0
      [] status = "DEGRADED" -> 1
      [] status = "CRITICAL" -> 2

----------------------------------------------------------------------------
(* The decision rules of compare_baseline (SpecCompare) *)

Last(rs) == rs[Len(rs)]

\* the position right after the turn of the accounting loop for type t
AfterAccounting(t) ==
    \E i \in DOMAIN AccountingTypes :
        /\ AccountingTypes[i] = t
        /\ IF i < Len(AccountingTypes)
           THEN pc = "compare_accounting" /\ data_type = i + 1
           ELSE pc = "compare_jobs"

BaselineCount(t) == Len(Get(Get(baseline, "accounting", EmptyDict), t, <<>>))

\* C6: for each accounting type whose current count was obtained, the outcome
\* is FAIL exactly when the current count is below the baseline count, and
\* PASS otherwise
C6_AccountingFailIffLower ==
    \A t \in AccountingTypeSet :
        (AfterAccounting(t) /\ cmd.ret = 0) =>
            LET o == Last(results)
                current == CountLines(cmd.out)
            IN  /\ o.category = CMP /\ o.name = AccountingName(t)
                /\ o.status = FAIL <=> current < BaselineCount(t)
                /\ o.status = PASS <=> current >= BaselineCount(t)

C6_Witness ==
    /\ AfterAccounting("qos") /\ cmd.ret = 0
    /\ CountLines(cmd.out) < BaselineCount("qos")
    /\ Last(results).status = FAIL
    /\ \E i \in DOMAIN results :
          /\ results[i].name = AccountingName("users")
          /\ results[i].status = PASS
          /\ results[i].details.current_count > results[i].details.baseline_count

BaselineJobCount == Get(Get(baseline, "accounting", EmptyDict), "job_count_30days", 0)

\* C7: when the current 30-day job count was obtained, the outcome is FAIL
\* exactly when current < 0.9 * baseline, and PASS otherwise; for baseline 100,
\* 91 and 90 give PASS and 89 gives FAIL; exactly 90% of the baseline is PASS
C7_JobCountTolerance ==
    (pc = "compare_partitions" /\ cmd.ret = 0) =>
        LET o == Last(results)
            current == CountLines(cmd.out)
        IN  /\ o.category = CMP /\ o.name = <<"Job History Integrity">>
            /\ o.status = FAIL <=> 10 * current < 9 * BaselineJobCount
            /\ o.status # FAIL => o.status = PASS
            /\ (BaselineJobCount = 100 /\ current \in {90, 91}) => o.status = PASS
            /\ (BaselineJobCount = 100 /\ current = 89) => o.status = FAIL
            /\ 10 * current = 9 * BaselineJobCount => o.status = PASS

C7_Witness ==
    /\ pc = "compare_partitions" /\ cmd.ret = 0
    /\ BaselineJobCount = 100 /\ CountLines(cmd.out) = 90
    /\ Last(results).status = PASS

BaselinePartitionNames ==
    DOMAIN Get(Get(baseline, "configuration", EmptyDict), "partitions", EmptyDict)

\* C8: when the current partition names were obtained, the outcome is FAIL,
\* listing the missing names, exactly when a baseline partition is absent from
\* the current set; otherwise it is PASS, names the new partitions (in its
\* details, their number in the message) when there are any, and mentions none
\* when the sets are equal; new partitions never make it WARN or FAIL
C8_PartitionSetRule ==
    (pc = "compare_nodes" /\ cmd.ret = 0) =>
        LET o == Last(results)
            current == cmd.out
            missing == BaselinePartitionNames \ current
            new == current \ BaselinePartitionNames
        IN  /\ o.category = CMP /\ o.name = <<"Partition Configuration">>
            /\ o.status = FAIL <=> missing # {}
            /\ o.status = FAIL =>
                  /\ o.message.text = "Missing partitions: {}"
                  /\ o.message.fmt = <<missing>>
            /\ missing = {} => o.status = PASS
            /\ (missing = {} /\ new # {}) =>
                  /\ DOMAIN o.details = {"new"} /\ o.details.new = new
                  /\ o.message.text = "All partitions preserved, {} new partition(s) added"
                  /\ o.message.fmt = <<Cardinality(new)>>
            /\ current = BaselinePartitionNames =>
                  /\ DOMAIN o.details = {}
                  /\ o.message.text = "All {} partitions preserved"
                  /\ o.message.fmt = <<Cardinality(current)>>

C8_Witness ==
    /\ pc = "compare_nodes" /\ cmd.ret = 0
    /\ BaselinePartitionNames = {"a", "b"} /\ cmd.out = {"a", "b", "c"}
    /\ Last(results).status = PASS
    /\ DOMAIN Last(results).details = {"new"}
    /\ Last(results).details.new = {"c"}

BaselineNodeCount == Get(Get(baseline, "system_state", EmptyDict), "total_nodes", 0)

\* C9: when the current node count was obtained, the outcome is FAIL exactly
\* when it is lower than the baseline total_nodes, and PASS when it is equal
\* or greater
C9_NodeCountFailIffLower ==
    (pc = "get_results" /\ args.compare_only /\ cmd.ret = 0) =>
        LET o == Last(results)
            current == CountLines(cmd.out)
        IN  /\ o.category = CMP /\ o.name = <<"Node Count">>
            /\ o.status = FAIL <=> current < BaselineNodeCount
            /\ o.status = PASS <=> current >= BaselineNodeCount

C9_Witness ==
    /\ pc = "get_results" /\ args.compare_only /\ cmd.ret = 0
    /\ CountLines(cmd.out) = BaselineNodeCount /\ BaselineNodeCount = MaxCount
    /\ Last(results).status = PASS

BaselineVersion == Get(baseline, "slurm_version", "unknown")

\* C10: when the current version was obtained, the outcome is WARN, never
\* FAIL, if it equals the baseline version, and PASS if the two differ
C10_VersionWarnIffUnchanged ==
    (pc = "compare_accounting" /\ data_type = 1 /\ cmd.ret = 0) =>
        LET o == Last(results) IN
        /\ o.category = CMP /\ o.name = <<"Version Check">>
        /\ o.status # FAIL
        /\ cmd.out = BaselineVersion => o.status = WARN
        /\ cmd.out # BaselineVersion => o.status = PASS

C10_Witness ==
    /\ pc = "compare_accounting" /\ data_type = 1 /\ cmd.ret = 0
    /\ cmd.out = BaselineVersion
    /\ Last(results).status = WARN

----------------------------------------------------------------------------
(* The comparison as a whole (SpecCompare) *)

ComparePositions == {"compare_version", "compare_accounting", "compare_jobs",
                     "compare_partitions", "compare_nodes"}

\* the name of the outcome of the dimension that is evaluated at the position pc
DimensionName ==
    CASE pc = "compare_version"    -> <<"Version Check">>
      [] pc = "compare_accounting" -> AccountingName(AccountingTypes[data_type])
      [] pc = "compare_jobs"       -> <<"Job History Integrity">>
      [] pc = "compare_partitions" -> <<"Partition Configuration">>
      [] pc = "compare_nodes"      -> <<"Node Count">>

\* the position after the dimension that is evaluated at the position pc
NextDimension ==
    CASE pc = "compare_version"    -> "compare_accounting"
      [] pc = "compare_accounting" -> IF data_type < Len(AccountingTypes)
                                      THEN "compare_accounting" ELSE "compare_jobs"
      [] pc = "compare_jobs"       -> "compare_partitions"
      [] pc = "compare_partitions" -> "compare_nodes"
      [] pc = "compare_nodes"      -> IF args.compare_only THEN "get_results"
                                                           ELSE "check_slurm_version"

AfterVersion    == pc = "compare_accounting" /\ data_type = 1
AfterJobs       == pc = "compare_partitions"
AfterPartitions == pc = "compare_nodes"
AfterNodes      == pc = "get_results" /\ args.compare_only

\* the latest outcome is a FAIL with this name
RecordedFail(name) ==
    /\ results # <<>>
    /\ Last(results).name = name
    /\ Last(results).status = FAIL

\* C11: in every dimension of compare_baseline, when the command that measures
\* the current value failed, a FAIL outcome of that dimension is recorded
C11_MeasurementFailureIsFail ==
    cmd.ret # 0 =>
        /\ AfterVersion => RecordedFail(<<"Version Check">>)
        /\ \A t \in AccountingTypeSet : AfterAccounting(t) => RecordedFail(AccountingName(t))
        /\ AfterJobs => RecordedFail(<<"Job History Integrity">>)
        /\ AfterPartitions => RecordedFail(<<"Partition Configuration">>)
        /\ AfterNodes => RecordedFail(<<"Node Count">>)

\* a step from a position of compare_baseline
ComparisonGoesOn ==
    pc \in ComparePositions =>
        /\ pc' = NextDimension
        /\ IF cmd'.ret = 0 \/ pc = "compare_accounting"
           THEN /\ Len(results') = Len(results) + 1
                /\ Last(results').name = DimensionName
           ELSE results' = results

\* C12: every step of compare_baseline goes on to the next dimension, whatever
\* was recorded before (a FAIL included), and whether the dimension records an
\* outcome depends on its own command alone
C12_FailNeverAborts == [][ComparisonGoesOn]_vars

\* a FAIL in the first accounting type, and every dimension after it recorded
C12_Witness ==
    /\ AfterNodes
    /\ Len(results) = 9
    /\ results[2].status = FAIL
    /\ Last(results).name = <<"Node Count">>

DimensionNames ==
    {<<"Version Check">>, <<"Job History Integrity">>, <<"Partition Configuration">>,
     <<"Node Count">>} \cup {AccountingName(t) : t \in AccountingTypeSet}

\* C13: when compare_baseline returns it has recorded exactly nine outcomes,
\* one of each dimension
C13_NineOutcomes ==
    AfterNodes =>
        /\ Len(results) = 9
        /\ \A name \in DimensionNames :
              Cardinality({i \in DOMAIN results : results[i].name = name}) = 1

----------------------------------------------------------------------------
(* The result list over a whole run (Spec) *)

\* C14: every recorded outcome with status FAIL or WARN has a non-empty message
C14_FailWarnHasMessage ==
    \A i \in DOMAIN results :
        results[i].status \in {FAIL, WARN} => results[i].message.text # ""

\* the run is over and it recorded a WARN
C14_Witness ==
    /\ pc = "exited"
    /\ \E i \in DOMAIN results :
          /\ results[i].status = WARN
          /\ results[i].message.text # ""

\* the positions of the checks that call add_result exactly once in each of
\* their branches, and of the accounting loop of compare_baseline
SingleOutcomePositions ==
    {"compare_accounting", "check_slurm_version", "check_nodes", "check_slurmdbd_connection",
     "check_job_history", "check_partitions", "check_munge", "check_job_submission"}

\* a step of the tool: outcomes are only appended
ResultsOnlyGrow ==
    /\ \/ results' = results
       \/ /\ Len(results') > Len(results)
          /\ \A i \in DOMAIN results :
                /\ results'[i].category = results[i].category
                /\ results'[i].name = results[i].name
                /\ results'[i].status = results[i].status
                /\ results'[i] = results[i]
    /\ pc \in SingleOutcomePositions => Len(results') = Len(results) + 1

\* C15: every step leaves the outcomes recorded so far in place and unchanged
\* and only appends to the list; a check that calls add_result once appends
\* exactly one outcome; this holds for every choice of the switches (--quiet
\* included)
C15_AppendOnly == [][ResultsOnlyGrow]_vars

\* a quiet run that recorded the outcomes of all its checks
C15_Witness ==
    /\ args.quiet
    /\ pc = "get_results"
    /\ Len(results) >= 10

\* a step that ends the loading of the baseline without a document
BaselineRejected ==
    /\ (pc = "load_baseline" /\ pc' # "compare_version") =>
          /\ pc' = "exited"
          /\ exitCode' > 0
          /\ reported' = "none"
          /\ ~report'.made
          /\ results' = <<>>
    /\ pc # "exited"

\* C20: when the baseline file cannot be loaded the run ends there with a
\* non-zero exit code: nothing was recorded, no report was built or written,
\* and the ended run takes no further step
C20_BaselineRejected == [][BaselineRejected]_vars

C20_Witness ==
    /\ pc = "exited"
    /\ args.post_upgrade /\ args.baseline /\ ~args.compare_only
    /\ exitCode = 2
    /\ reported = "none"
    /\ results = <<>>

----------------------------------------------------------------------------
(* The report object (SpecReportObject) and the algebra of the statuses (SpecReport) *)

\* C16: summary() and overall_status() of the report object that get_results
\* returned are those of the outcome list as it is now: every outcome recorded
\* since the object was made is counted
C16_NotCached ==
    report.made =>
        /\ summary(Tests).total = Len(results)
        /\ summary(Tests) = summary(results)
        /\ overall_status(Tests) = overall_status(results)

\* the object was made on the empty list; outcomes, a FAIL among them, came later
C16_Witness ==
    /\ report.made /\ report.timestamp = 0
    /\ Len(results) = MaxTests
    /\ summary(Tests).total = MaxTests
    /\ overall_status(Tests) = "CRITICAL"

WithoutSkipped(tests) == SelectSeq(tests, LAMBDA t : t.status # SKIP)

\* a step that appends a PASS or a SKIP leaves the overall status as it was;
\* the overall status is that of the list without its SKIP outcomes
PassOrSkipIsNeutral ==
    /\ (Len(results') = Len(results) + 1 /\ Last(results').status \in {PASS, SKIP}) =>
          overall_status(results') = overall_status(results)
    /\ overall_status(results') = overall_status(WithoutSkipped(results'))

\* C17: appending a PASS or SKIP outcome never changes overall_status(), and
\* SKIP outcomes never count toward DEGRADED or CRITICAL
C17_PassSkipNeutral == [][PassOrSkipIsNeutral]_vars

C17_Witness ==
    /\ Len(results) = MaxTests
    /\ results[1].status = WARN
    /\ results[2].status = PASS
    /\ Last(results).status = SKIP
    /\ overall_status(results) = "DEGRADED"

\* the outcomes of tests in the order p
Permute(tests, p) == [i \in DOMAIN tests |-> tests[p[i]]]

\* tests with other category, name, message and details at the positions S
Relabel(tests, S) ==
    [i \in DOMAIN tests |->
        IF i \in S
        THEN TestResult("Other", <<"other ", "name">>, tests[i].status,
                        Msg("other message {}", <<1>>), [key |-> "value"])
        ELSE tests[i]]

StatusFromSummary(s) ==
    IF s.failed > 0 THEN "CRITICAL" ELSE IF s.warnings > 0 THEN "DEGRADED" ELSE "HEALTHY"

\* C19: the summary and the overall status of a report are those of every
\* permutation of its outcomes and of every report that differs from it only
\* in category, name, message or details; overall_status() is determined by
\* summary()
C19_CountsOnly ==
    /\ \A p \in Permutations(DOMAIN results) :
          /\ summary(Permute(results, p)) = summary(results)
          /\ overall_status(Permute(results, p)) = overall_status(results)
    /\ \A S \in SUBSET DOMAIN results :
          /\ summary(Relabel(results, S)) = summary(results)
          /\ overall_status(Relabel(results, S)) = overall_status(results)
    /\ overall_status(results) = StatusFromSummary(summary(results))

\* a report that ends with its only FAIL: its reverse starts with it
C19_Witness ==
    /\ Len(results) = MaxTests
    /\ results[1].status = PASS
    /\ results[2].status = WARN
    /\ Last(results).status = FAIL
    /\ summary(results).failed = 1
    /\ \E p \in Permutations(DOMAIN results) :
          /\ Permute(results, p)[1].status = FAIL
          /\ overall_status(Permute(results, p)) = "CRITICAL"

----------------------------------------------------------------------------
(* The baseline file (SpecBaseline) *)

\* a step of the two runs: the file written holds, read back, the captured
\* document; nothing else writes the file; the later run loads what it holds
BaselineRoundTrip ==
    /\ (pc = "write_baseline" /\ exitCode' = 0) =>
          /\ file' = json_dump(baseline)
          /\ json_load(file') = baseline
    /\ (pc # "write_baseline") => file' = file
    /\ (pc = "load_baseline" /\ pc' = "compare_version") =>
          /\ baseline' = json_load(file)
          /\ json_dump(baseline') = file

\* C18: the baseline that the --post-upgrade run loads from the file of the
\* --pre-upgrade run equals the baseline that run captured:
\* json.load(json.dump(b)) = b for every b that capture_baseline built
C18_BaselineRoundTrip == [][BaselineRoundTrip]_vars

\* read back: a document with a null version (the capture of the version
\* failed), lists of lines, a job count and nested dicts
C18_Witness ==
    /\ pc = "compare_version" /\ args.post_upgrade
    /\ file # NoFile
    /\ baseline = json_load(file)
    /\ PyGetItem(baseline, "slurm_version") = PyNone
    /\ PyGetItem(PyGetItem(baseline, "accounting"), "users") = PyList(<<PyStr("rec")>>)
    /\ PyGetItem(PyGetItem(baseline, "accounting"), "job_count_30days") = PyInt(NominalJobCount)
    /\ PyHas(PyGetItem(PyGetItem(baseline, "configuration"), "partitions"), "b")
    /\ PyGetItem(PyGetItem(baseline, "system_state"), "total_nodes") = PyInt(NominalCount)

----------------------------------------------------------------------------
(* The standard checks of a run (Spec) *)

\* the positions right after a standard check other than check_pyxis; the
\* comparison of a --compare-only run also ends at get_results
AfterStandardCheck ==
    /\ ~args.compare_only
    /\ pc \in {"check_services", "check_nodes", "check_slurmdbd_connection", "check_job_history",
               "check_partitions", "check_munge", "check_logs", "check_pyxis", "get_results"}

\* the text is one of the values formatted into the message
Contains(message, text) == \E i \in DOMAIN message.fmt : message.fmt[i] = text

\* the command could not take the measurement: it ended with a non-zero
\* return code and an error text (`systemctl is-active` answering "inactive"
\* with return code 3 and no error text is a measurement, not a failure)
MeasurementFailed(r) == r.ret # 0 /\ r.err # ""

\* C21: when the external command that takes the measurement of a standard
\* check fails, the check records a FAIL outcome whose message contains the
\* error text of the command
C21_CommandFailureIsFail ==
    (AfterStandardCheck /\ MeasurementFailed(cmd)) =>
        /\ results # <<>>
        /\ Last(results).status = FAIL
        /\ Contains(Last(results).message, cmd.err)

----------------------------------------------------------------------------
(* The console (Spec) *)

StatusLines == SelectSeq(console, LAMBDA l : l.line = "status")

\* the line that follows line i is the message line of the same outcome
MessageFollows(i) ==
    /\ i + 1 \in DOMAIN console
    /\ console[i + 1] = MessageLine(console[i].result)

\* C22: unless the run is quiet, every recorded outcome has its status line
\* on the console as soon as it is recorded, in the order of recording; the
\* message line follows exactly when the status is FAIL or WARN or the run is
\* verbose; detail lines appear only in a verbose run and belong to the
\* outcome printed before them; a quiet run prints no line for an outcome
C22_ConsoleLines ==
    IF quiet(args) THEN console = <<>>
    ELSE /\ Len(StatusLines) = Len(results)
         /\ \A i \in DOMAIN results : StatusLines[i].result = results[i]
         /\ \A i \in DOMAIN console :
               /\ console[i].line = "status" =>
                     (MessageFollows(i) <=>
                         (console[i].result.status \in {FAIL, WARN} \/ args.verbose))
               /\ console[i].line = "message" =>
                     i > 1 /\ console[i - 1] = StatusLine(console[i].result)
               /\ console[i].line = "details" =>
                     /\ args.verbose
                     /\ i > 1 /\ console[i - 1].line \in {"status", "message"}
                     /\ console[i - 1].result = console[i].result

\* a run that is neither quiet nor verbose printed a PASS outcome without its
\* message and a FAIL outcome with it
C22_Witness ==
    /\ ~quiet(args) /\ ~args.verbose
    /\ \E i \in DOMAIN console :
          /\ console[i].line = "status" /\ console[i].result.status = PASS
          /\ console[i].result.message # NoMessage
          /\ ~MessageFollows(i)
    /\ \E i \in DOMAIN console :
          /\ console[i].line = "status" /\ console[i].result.status = FAIL
          /\ MessageFollows(i)

----------------------------------------------------------------------------
(* The order of the outcomes (Spec) *)

\* the place of the step that records an outcome in the order of execution:
\* compare_baseline first, then the checks in the order of run_all_checks
Rank(result) ==
    CASE result.category = CMP -> 0
      [] result.category = "System" -> 1
      [] result.category = "Services" -> 2
      [] result.category = "Nodes" -> 3
      [] result.category = "Accounting" /\ result.name = <<"Database Connection">> -> 4
      [] result.category = "Accounting" /\ result.name = <<"Job History Access">> -> 5
      [] result.category = "Configuration" -> 6
      [] result.category = "Authentication" -> 7
      [] result.category = "Logs" -> 8
      [] result.category = "Pyxis" -> 9
      [] result.category = "Job Submission" -> 10
      [] OTHER -> 11

\* the rank of the step that the program is about to take
RankOfPosition ==
    CASE pc \in ComparePositions -> 0
      [] pc = "check_slurm_version" -> 1
      [] pc = "check_services" -> 2
      [] pc = "check_nodes" -> 3
      [] pc = "check_slurmdbd_connection" -> 4
      [] pc = "check_job_history" -> 5
      [] pc = "check_partitions" -> 6
      [] pc = "check_munge" -> 7
      [] pc = "check_logs" -> 8
      [] pc = "check_pyxis" -> 9
      [] pc = "check_job_submission" -> 10
      [] OTHER -> 11

\* C24: the outcomes are in the order of execution: every "Baseline
\* Comparison" outcome precedes every outcome of a standard check, and the
\* outcomes of the standard checks follow the order version, services, nodes,
\* slurmdbd connection, job history, partitions, munge, logs, pyxis, job
\* submission; no outcome belongs to a step that has not run yet
C24_ExecutionOrder ==
    /\ \A i \in DOMAIN results :
          IF pc \in ComparePositions THEN Rank(results[i]) = 0
          ELSE Rank(results[i]) < RankOfPosition
    /\ \A i \in DOMAIN results : \A j \in DOMAIN results :
          i < j => Rank(results[i]) <= Rank(results[j])

\* a --post-upgrade run after its last check: comparison outcomes first, and
\* one outcome at least of each of the ten checks
C24_Witness ==
    /\ args.post_upgrade /\ pc = "get_results"
    /\ results[1].category = CMP
    /\ {Rank(results[i]) : i \in DOMAIN results} = 0..10

----------------------------------------------------------------------------
(* --compare-only (SpecCompare) *)

\* the exit code that the statuses of the outcomes give
ExitCodeOf(tests) ==
    IF FAIL \in Statuses(tests) THEN 2 ELSE IF WARN \in Statuses(tests) THEN 1 ELSE 0

\* C25: in a run with --compare-only and a baseline that loads, no standard
\* check runs: the program is never at a check, every outcome has the
\* category "Baseline Comparison", and the run that reported ends with the
\* exit code that those outcomes give
C25_CompareOnly ==
    /\ RankOfPosition \notin 1..10
    /\ \A i \in DOMAIN results : results[i].category = CMP
    /\ (pc = "exited" /\ report.made) => exitCode = ExitCodeOf(results)

\* a --compare-only run that ended with exit code 2 for a FAIL of the comparison
C25_Witness ==
    /\ args.compare_only /\ pc = "exited" /\ report.made
    /\ baseline # NoBaseline
    /\ \E i \in DOMAIN results : results[i].category = CMP /\ results[i].status = FAIL
    /\ exitCode = 2

----------------------------------------------------------------------------
(* check_nodes (Spec) *)

\* the nodes that the lines of the node query name, and those of them whose
\* state is not idle, allocated, mixed or completing
NodesOf(lines) == {lines[i].name : i \in DOMAIN lines}
ProblemNodesOf(lines) ==
    {lines[i].name : i \in {k \in DOMAIN lines : lines[k].state \notin HealthyStates}}

\* PASS without a problem node, WARN for fewer than 10% of the nodes, else FAIL
NodeStatusFor(problems, total) ==
    IF problems = 0 THEN PASS ELSE IF problems * 10 < total THEN WARN ELSE FAIL

\* C26: after check_nodes whose node query succeeded there is exactly one
\* outcome of the node check: PASS when no node is in a state other than
\* idle, allocated, mixed, completing; WARN when the number of such nodes is
\* positive and below 10% of the number of nodes; FAIL when it is 10% or more
C26_NodeThreshold ==
    (pc = "check_slurmdbd_connection" /\ cmd.ret = 0) =>
        /\ Cardinality({i \in DOMAIN results : results[i].category = "Nodes"}) = 1
        /\ Last(results).category = "Nodes"
        /\ Last(results).status =
               NodeStatusFor(Cardinality(ProblemNodesOf(cmd.out)), Cardinality(NodesOf(cmd.out)))

----------------------------------------------------------------------------
(* A baseline whose capture failed (SpecUpgrade) *)

\* what a failed command of capture_baseline leaves in the document
FailedCaptureLeaves ==
    /\ pc = "capture_version" => PyGetItem(baseline', "slurm_version") = PyNone
    /\ pc = "capture_accounting" =>
          PyGetItem(PyGetItem(baseline', "accounting"), AccountingCommands[data_type]) = PyList(<<>>)
    /\ pc = "capture_jobs" => ~PyHas(PyGetItem(baseline', "accounting"), "job_count_30days")
    /\ pc = "capture_partitions" => ~PyHas(PyGetItem(baseline', "configuration"), "partitions")
    /\ pc = "capture_nodes" => ~PyHas(PyGetItem(baseline', "system_state"), "total_nodes")

\* the loaded baseline holds, for the dimension that is evaluated at the
\* position pc, what a failed capture leaves
CaptureHadFailed ==
    CASE pc = "compare_version"    -> baseline.slurm_version = None
      [] pc = "compare_accounting" -> baseline.accounting[AccountingTypes[data_type]] = <<>>
      [] pc = "compare_jobs"       -> "job_count_30days" \notin DOMAIN baseline.accounting
      [] pc = "compare_partitions" -> "partitions" \notin DOMAIN baseline.configuration
      [] pc = "compare_nodes"      -> "total_nodes" \notin DOMAIN baseline.system_state
      [] OTHER -> FALSE

FailedCaptureCompares ==
    /\ (pc \in {"capture_version", "capture_accounting", "capture_jobs", "capture_partitions",
                 "capture_nodes"} /\ cmd'.ret # 0) => FailedCaptureLeaves
    /\ (pc \in ComparePositions /\ CaptureHadFailed /\ cmd'.ret = 0) =>
          /\ Len(results') = Len(results) + 1
          /\ Last(results').name = DimensionName
          /\ Last(results').status = PASS

\* C27: a command of capture_baseline that fails leaves a null version, an
\* empty list or no key in the baseline, and a dimension of compare_baseline
\* that finds this in the baseline and measures its current value records
\* PASS, whatever the current value is
C27_FailedCaptureIsNoRegression == [][FailedCaptureCompares]_vars

\* the comparison with the file of a capture whose version and job count
\* commands failed: nine outcomes, all PASS
C27_Witness ==
    /\ AfterNodes
    /\ baseline.slurm_version = None
    /\ "job_count_30days" \notin DOMAIN baseline.accounting
    /\ Len(results) = 9
    /\ Statuses(results) = {PASS}

----------------------------------------------------------------------------
(* The flags --verbose and --quiet (Spec) *)

\* what an outcome sequence decides: category, name and status of each outcome
Triples(tests) ==
    [i \in DOMAIN tests |-> <<tests[i].category, tests[i].name, tests[i].status>>]

\* C28: the run on the same command results with the other value of
\* --verbose records the same sequence of (category, name, status), so its
\* summary, its overall status and its exit code are those of this run; the
\* value of --quiet is read by add_result only after the outcome is appended
C28_FlagsDoNotDecide ==
    /\ Triples(twin) = Triples(results)
    /\ summary(twin) = summary(results)
    /\ overall_status(twin) = overall_status(results)
    /\ (pc = "exited" /\ report.made) => exitCode = exit_code(twin)

\* a run whose messages depend on --verbose (the node check lists the problem
\* nodes in a verbose run only) and that ended with the exit code of a WARN
C28_Witness ==
    /\ pc = "exited" /\ report.made
    /\ \E i \in DOMAIN results :
          /\ results[i].name = <<"Node Health Check">>
          /\ results[i].status = WARN
          /\ twin[i].message # results[i].message
    /\ exitCode = 1

----------------------------------------------------------------------------
(* --pre-upgrade (SpecCapture) *)

CapturePositions == {"capture_version", "capture_accounting", "capture_jobs",
                     "capture_partitions", "capture_nodes", "capture_states"}

\* the command line is rejected before anything is captured
InvalidArgs == (args.post_upgrade \/ args.compare_only) /\ ~args.baseline

----------------------------------------------------------------------------
(* migrate-slurmdb-to-headnode: dump_remote_slurm_db and import_db_to_local,
   the main thread and the progress thread of each *)

\* slurm-healthcheck is not running
NoHealthcheck == StartHealthcheck("none", DefaultFlags, 0)

TransferFunctions == {"dump_remote_slurm_db", "import_db_to_local"}

\* len(spinner_chars)
SpinnerChars == 10

\* dump_complete = [False]; dump_error = [None]; spin_idx = 0. main is the
\* position of the main thread, progress that of progress_reporter
InitTransfer ==
    /\ NoHealthcheck
    /\ backup = NoBackupRun
    /\ \E f \in TransferFunctions :
          transfer = [func |-> f, main |-> "start", complete |-> FALSE, error |-> None,
                      progress |-> "not_started", spin_idx |-> 0]

\* progress_thread.start(), then the try block is entered
StartThread ==
    /\ transfer.main = "start"
    /\ transfer' = [transfer EXCEPT !.main = "subprocess", !.progress = "test"]
    /\ UNCHANGED <<healthcheck_vars, backup>>

\* what ended the try block: the command returned 0, it returned another code
\* (error = result.stderr), or open() or subprocess.run raised (error = str(e))
SubprocessOutcomes == {None, "stderr", "exception"}

\* the subprocess call ends, in one of the three ways
SubprocessEnds ==
    /\ transfer.main = "subprocess"
    /\ \E e \in SubprocessOutcomes :
          transfer' = [transfer EXCEPT !.main = "finally", !.error = e]
    /\ UNCHANGED <<healthcheck_vars, backup>>

complete_unless_error(t) ==
    [t EXCEPT !.complete = (t.error = None), !.main = "join"]

\* finally: dump_complete[0] = True
set_complete(t) == [t EXCEPT !.complete = TRUE, !.main = "join"]

Finally ==
    /\ transfer.main = "finally"
    /\ transfer' = set_complete(transfer)
    /\ UNCHANGED <<healthcheck_vars, backup>>

\* progress_thread.join(timeout=2) returns, the thread ended or not; then
\* raise RuntimeError if dump_error[0], else the function goes on and returns
Join ==
    /\ transfer.main = "join"
    /\ transfer' = [transfer EXCEPT !.main = IF transfer.error # None THEN "raised" ELSE "returned"]
    /\ UNCHANGED <<healthcheck_vars, backup>>

\* while not dump_complete[0]
ProgressTest ==
    /\ transfer.progress = "test"
    /\ transfer' = [transfer EXCEPT !.progress = IF transfer.complete THEN "newline" ELSE "poll"]
    /\ UNCHANGED <<healthcheck_vars, backup>>

\* the body of the loop up to the sleep: the size of the file or the number of
\* tables is read, the status is written, spin_idx advances
ProgressPoll ==
    /\ transfer.progress = "poll"
    /\ transfer' = [transfer EXCEPT !.progress = "sleep",
                                    !.spin_idx = (transfer.spin_idx + 1) % SpinnerChars]
    /\ UNCHANGED <<healthcheck_vars, backup>>

\* time.sleep(0.5) / time.sleep(1) is over
ProgressSleep ==
    /\ transfer.progress = "sleep"
    /\ transfer' = [transfer EXCEPT !.progress = "test"]
    /\ UNCHANGED <<healthcheck_vars, backup>>

\* sys.stdout.write("\n") after the loop; the thread ends
ProgressEnds ==
    /\ transfer.progress = "newline"
    /\ transfer' = [transfer EXCEPT !.progress = "done"]
    /\ UNCHANGED <<healthcheck_vars, backup>>

NextTransfer ==
    \/ StartThread \/ SubprocessEnds \/ Finally \/ Join
    \/ ProgressTest \/ ProgressPoll \/ ProgressSleep \/ ProgressEnds

SpecTransfer == InitTransfer /\ [][NextTransfer]_vars

\* both threads run whenever they can: the main thread goes on after the
\* subprocess call ended, the progress thread is scheduled, its sleep ends and
\* its poll returns (the stat of a file; a query with timeout=10). Nothing
\* makes the subprocess call end
SpecTransferFair ==
    /\ SpecTransfer
    /\ WF_vars(Finally) /\ WF_vars(Join)
    /\ WF_vars(ProgressTest) /\ WF_vars(ProgressPoll) /\ WF_vars(ProgressSleep)
    /\ WF_vars(ProgressEnds)

\* a step changes what the main thread writes (its position, the error, the flag)
MainWrites ==
    \/ transfer'.main # transfer.main
    \/ transfer'.error # transfer.error
    \/ transfer'.complete # transfer.complete

\* a step changes what the progress thread writes (its position, spin_idx)
ProgressWrites ==
    \/ transfer'.progress # transfer.progress
    \/ transfer'.spin_idx # transfer.spin_idx

FlagProtocol ==
    /\ transfer'.complete # transfer.complete =>
          ~transfer.complete /\ transfer.main = "finally" /\ transfer'.main = "join"
    /\ transfer.main # "start" => ~(MainWrites /\ ProgressWrites)
    /\ (transfer.complete /\ transfer.progress = "test") => transfer'.progress # "poll"
    /\ transfer.progress = "done" => transfer'.progress = "done"

\* the flag is false until the subprocess call has ended, and true when the
\* function has returned or raised
FlagFollowsSubprocess ==
    /\ transfer.main \in {"start", "subprocess", "finally"} => ~transfer.complete
    /\ transfer.main \in {"join", "returned", "raised"} => transfer.complete

----------------------------------------------------------------------------
(* backup-slurm-db: create_backup, then cleanup_old_backups *)

BackupDir == "backup_dir"

\* datetime.now(), in days
Now == MaxAge

\* a file: its directory, its name in three parts, whether os.path.isfile
\* holds for it, and the day of its last modification
File(dir, prefix, stem, ext, isfile, mtime) ==
    [dir |-> dir, prefix |-> prefix, stem |-> stem, ext |-> ext, isfile |-> isfile, mtime |-> mtime]

\* the glob patterns of cleanup_old_backups
patterns ==
    {[prefix |-> "slurm_acct_db_backup_", ext |-> ".sql"],
     [prefix |-> "slurm_acct_db_backup_", ext |-> ".sql.gz"],
     [prefix |-> "slurm_backup_", ext |-> ".sql"],
     [prefix |-> "slurm_backup_", ext |-> ".sql.gz"]}

\* glob.glob(os.path.join(backup_dir, pattern)) yields the file
Matches(f, backup_dir) ==
    /\ f.dir = backup_dir
    /\ [prefix |-> f.prefix, ext |-> f.ext] \in patterns

\* f"slurm_acct_db_backup_{timestamp}.sql", with ".gz" if self.compress;
\* written on the day of the run
backup_path(compress) ==
    File(BackupDir, "slurm_acct_db_backup_", "now", IF compress THEN ".sql.gz" ELSE ".sql",
         TRUE, Now)

\* what is on the disk before the run: two earlier backups of any age, a
\* file of another name, a backup in another directory, and a directory whose
\* name matches a pattern, the last three of the greatest age
FilesBefore ==
    {{File(BackupDir, "slurm_acct_db_backup_", "old", ".sql.gz", TRUE, a),
      File(BackupDir, "slurm_backup_", "old", ".sql", TRUE, b),
      File(BackupDir, "notes", "", ".txt", TRUE, 0),
      File("other_dir", "slurm_backup_", "old", ".sql", TRUE, 0),
      File(BackupDir, "slurm_backup_", "dir", ".sql", FALSE, 0)} : a \in 0..MaxAge, b \in 0..MaxAge}

\* --retention: absent (None), or any integer (type=int)
NoRetention == [given |-> FALSE, days |-> 0]
Retentions == {NoRetention} \cup {[given |-> TRUE, days |-> n] : n \in -MaxRetention..MaxRetention}

\* bool(args.retention)
Truthy(retention) == retention.given /\ retention.days # 0

\* the returned backup_path: None is the empty set, a path the set of its file
NoPath == {}

InitBackup ==
    /\ NoHealthcheck
    /\ transfer = NoTransfer
    /\ \E r \in Retentions, c \in BOOLEAN, fs \in FilesBefore :
          backup = [pc |-> "create_backup", retention |-> r, compress |-> c, files |-> fs,
                    success |-> FALSE, path |-> NoPath, removed |-> {}, exitCode |-> -1]

\* how create_backup ends: no slurmdbd.conf or no directory (nothing written);
\* mysqldump or gzip failed, or an exception (the file was opened);
\* the file is smaller than 1024 bytes; success
BackupOutcomes == {"nothing_written", "dump_failed", "too_small", "created"}

\* success, backup_path = backup.create_backup(); if not success: sys.exit(1)
CreateBackup ==
    /\ backup.pc = "create_backup"
    /\ \E o \in BackupOutcomes :
          backup' = [backup EXCEPT
                        !.files = IF o = "nothing_written" THEN @
                                  ELSE @ \cup {backup_path(backup.compress)},
                        !.success = (o = "created"),
                        !.path = IF o \in {"too_small", "created"}
                                 THEN {backup_path(backup.compress)} ELSE NoPath,
                        !.pc = IF o = "created" THEN "verify_backup" ELSE "exited",
                        !.exitCode = IF o = "created" THEN @ ELSE 1]
    /\ UNCHANGED <<healthcheck_vars, transfer>>

\* if backup_path: backup.verify_backup(backup_path); the verdict is not used
VerifyBackup ==
    /\ backup.pc = "verify_backup"
    /\ backup' = [backup EXCEPT !.pc = "cleanup"]
    /\ UNCHANGED <<healthcheck_vars, transfer>>

\* cleanup_old_backups(backup_dir): the files that are left; os.remove raises
\* for the files of `denied`
cleanup_old_backups(files, backup_dir, retention_days, denied) ==
    IF ~Truthy(retention_days) THEN files
    ELSE LET cutoff_time == Now - retention_days.days
         IN  files \ {f \in files : /\ Matches(f, backup_dir)
                                     /\ f.isfile
                                     /\ f.mtime < cutoff_time
                                     /\ f \notin denied}

\* if args.retention and backup_path: cleanup_old_backups(dirname(backup_path));
\* sys.exit(0)
Cleanup ==
    /\ backup.pc = "cleanup"
    /\ \E denied \in {{}, backup.files} :
          LET left == IF Truthy(backup.retention) /\ backup.path # NoPath
                      THEN cleanup_old_backups(backup.files,
                                               (CHOOSE f \in backup.path : TRUE).dir,
                                               backup.retention, denied)
                      ELSE backup.files
          IN  backup' = [backup EXCEPT !.files = left, !.removed = backup.files \ left,
                                       !.pc = "exited", !.exitCode = 0]
    /\ UNCHANGED <<healthcheck_vars, transfer>>

NextBackup == CreateBackup \/ VerifyBackup \/ Cleanup

SpecBackup == InitBackup /\ [][NextBackup]_vars

\* C30: files are removed only after a backup was created in the run; every
\* removed file is in the backup directory, matches a backup name pattern and
\* was modified before now minus the retention days; the backup created in
\* the run is not removed, whatever integer --retention is
C30_RetentionCleanup ==
    backup.removed # {} =>
        /\ backup.success /\ backup.path # NoPath
        /\ backup.retention.given
        /\ \A f \in backup.removed :
              /\ Matches(f, BackupDir) /\ f.isfile
              /\ f.mtime < Now - backup.retention.days
        /\ backup.path \cap backup.removed = {}

====
